---- MODULE Spec2Model ----
(***************************************************************************)
(* deepmax: message orchestration, conversation store and streaming        *)
(* delivery, modelled from src/src/deepmax.                                *)
(*                                                                         *)
(* Two layers are modelled.                                                *)
(*   - The conversation store (core/identity.py over the schema of         *)
(*     storage/db.py): every SQL statement is one step of a PostgreSQL     *)
(*     READ COMMITTED transaction, with row locks and the partial unique   *)
(*     index idx_one_active_conv.  Specification SpecStore runs            *)
(*     concurrent callers of create_conversation / switch_conversation.    *)
(*   - The orchestrator (core/orchestrator.py) with its channel adapters   *)
(*     (channels/terminal.py, channels/telegram.py): every step is the     *)
(*     code between two suspension points of a handler task on the one     *)
(*     asyncio event loop.  Specification Spec.                            *)
(*                                                                         *)
(* Further specifications run parts of the program on their own inputs:    *)
(* SpecCmd (commands over stored conversations), SpecTurns (turns of one   *)
(* user under a fair event loop), SpecShutdown (main's shutdown sequence), *)
(* SpecChunk (chunk_markdown), SpecBuffer (TelegramStreamBuffer),          *)
(* SpecParse (parse_slash_command), SpecAgent (the agent request of a chat *)
(* turn over kept conversations) and SpecDelivery (one Telegram chat over  *)
(* successive turns, with the platform's answers).                         *)
(*                                                                         *)
(* Wiring of the two layers.  orchestrator.py calls the identity service   *)
(* as `self.identity.resolve(...)` (no await) and passes no user id to     *)
(* the conversation operations, while identity.py declares the operations  *)
(* `async def` with a leading user_id.  Spec models the orchestrator with  *)
(* the value of resolve being the looked-up user row and with each         *)
(* conversation operation applied for that resolved user.  /switch hands   *)
(* switch_conversation a thread-id prefix and /title, /model and /system   *)
(* hand the update_* operations a thread id, where identity.py takes       *)
(* conversations.id: these arguments are modelled as passed, a str for an  *)
(* integer query parameter, which asyncpg rejects (DataError).             *)
(* Every call into the store may also fail on its own (StoreError).        *)
(***************************************************************************)
EXTENDS Naturals, Integers, Sequences, FiniteSets, TLC

VARIABLES
    users,                \* table users: set of [id, name]
    channel_identities,   \* table channel_identities: set of [user_id, channel, channel_uid]
    conversations,        \* table conversations, committed rows
    conversations_id_seq, \* SERIAL sequence behind conversations.id
    uuid_seq,             \* number of uuid4() values drawn so far
    tx,                   \* SpecStore: one open connection/transaction per client
    ops,                  \* SpecStore: number of store calls started
    shutdown_event,       \* asyncio.Event shared by main, the orchestrator and the adapters
    _user_locks,          \* Orchestrator._user_locks: user name -> asyncio.Lock
    _active_tasks,        \* Orchestrator._active_tasks
    handler,              \* the handle_message calls so far, one record per call
    terminal,             \* position of TerminalChannel.start's loop
    mainPc,               \* position of main() after startup
    drainSet,             \* the tasks wait_for_active_tasks is waiting for
    chunk_text,           \* SpecChunk: the argument text of chunk_markdown
    chunk_size,           \* SpecChunk: the argument size of chunk_markdown
    chunks,               \* SpecChunk: the list chunk_markdown returned
    chunkPc,              \* SpecChunk: "call" before the call, "returned" after
    _buffer,              \* TelegramStreamBuffer._buffer
    _message,             \* TelegramStreamBuffer._message
    _last_edit_len,       \* TelegramStreamBuffer._last_edit_len
    _edit_task,           \* TelegramStreamBuffer._edit_task and where that task stands
    bot,                  \* the calls made on the Bot API for the chat since the buffer was
                          \* created, in order
    bot_result,           \* what became of each call of bot: "in_flight", "accepted",
                          \* "rejected" or "cancelled"
    chat,                 \* the messages the chat shows of those calls, in order
    bufPc,                \* SpecBuffer: "open" until finalize, then "finalized"
    added,                \* SpecBuffer: number of add_token calls so far
    pending_renders,      \* SpecBuffer: _schedule_edit tasks created and not yet ended
    stopped,              \* main: the ch.stop() calls made so far, in order
    channel_tasks,        \* main: "running" until step 3 cancels the adapters' tasks
    pools,                \* main: the connection pools closed so far, in order
    parse_text,           \* SpecParse: the argument text of parse_slash_command
    parse_result,         \* SpecParse: what parse_slash_command returned
    parsePc               \* SpecParse: "call" before the call, "returned" after

storeVars == <<users, channel_identities, conversations, conversations_id_seq, uuid_seq>>

orchVars == <<shutdown_event, _user_locks, _active_tasks, handler, terminal, mainPc, drainSet>>

chunkVars == <<chunk_text, chunk_size, chunks, chunkPc>>

bufVars == <<_buffer, _message, _last_edit_len, _edit_task, bot, bot_result, chat, bufPc,
             added, pending_renders>>

mainVars == <<stopped, channel_tasks, pools>>

parseVars == <<parse_text, parse_result, parsePc>>

auxVars == <<chunkVars, bufVars, mainVars, parseVars>>

vars == <<users, channel_identities, conversations, conversations_id_seq, uuid_seq, tx, ops,
          shutdown_event, _user_locks, _active_tasks, handler, terminal, mainPc, drainSet,
          chunk_text, chunk_size, chunks, chunkPc,
          _buffer, _message, _last_edit_len, _edit_task, bot, bot_result, chat, bufPc, added,
          pending_renders, stopped, channel_tasks, pools, parse_text, parse_result, parsePc>>

\* the variables of SpecChunk while another specification runs
NoChunkCall ==
    /\ chunk_text = <<>>
    /\ chunk_size = 0
    /\ chunks = <<>>
    /\ chunkPc = "none"

\* main() before its shutdown sequence: adapters started, pools open
MainServing ==
    /\ stopped = <<>>
    /\ channel_tasks = "running"
    /\ pools = <<>>

\* the variables of SpecParse while another specification runs
NoParseCall ==
    /\ parse_text = <<>>
    /\ parse_result = <<>>
    /\ parsePc = "none"

\* the variables of SpecBuffer while another specification runs
NoStreamBuffer ==
    /\ _buffer = <<>>
    /\ _message = <<"None">>
    /\ _last_edit_len = 0
    /\ _edit_task = "None"
    /\ bot = <<>>
    /\ bot_result = <<>>
    /\ chat = <<>>
    /\ bufPc = "none"
    /\ added = 0
    /\ pending_renders = 0

(***************************************************************************)
(* Bounds of the model.                                                    *)
(***************************************************************************)
NClients == 2

MaxOps == 4

MaxMsgs == 2

MaxFragments == 1

MaxTyping == 1

MaxLines == 4

MaxSize == 7

MaxTokens == 3

MaxChars == 5

(***************************************************************************)
(* Values.                                                                 *)
(***************************************************************************)
NULL == "NULL"

NoUser == [id |-> 0, name |-> NULL]

\* None in a text-valued column or field (texts are sequences)
None == <<"None">>

NoConv == [id |-> 0, user_id |-> 0, thread_id |-> 0, title |-> None,
           model |-> None, system_prompt |-> None, is_active |-> FALSE]

DefaultModel == <<"anthropic:claude-sonnet-4-5-20250929">>

DefaultSystemPrompt == <<"You are a helpful and concise personal assistant.">>

(***************************************************************************)
(* bootstrap_from_config: one INSERT INTO users per configured name, then  *)
(* an upsert of each configured channel identity.  The users table has no  *)
(* unique constraint on name, so ON CONFLICT DO NOTHING never skips the    *)
(* insert: every run adds a fresh row for every configured name.           *)
(***************************************************************************)
EmptyDb == [users |-> {}, channel_identities |-> {}, users_id_seq |-> 0]

UpsertIdentity(cis, uid, channel, channel_uid) ==
    IF channel_uid = NULL THEN cis
    ELSE {ci \in cis : ~(ci.channel = channel /\ ci.channel_uid = channel_uid)}
         \cup {[user_id |-> uid, channel |-> channel, channel_uid |-> channel_uid]}

RECURSIVE bootstrap_from_config(_, _)
bootstrap_from_config(db, links) ==
    IF links = <<>> THEN db
    ELSE LET link == Head(links)
             uid == db.users_id_seq + 1
             cis1 == UpsertIdentity(db.channel_identities, uid, "terminal", link.terminal)
             cis2 == UpsertIdentity(cis1, uid, "telegram", link.telegram)
         IN bootstrap_from_config(
                [users |-> db.users \cup {[id |-> uid, name |-> link.name]},
                 channel_identities |-> cis2,
                 users_id_seq |-> uid],
                Tail(links))

\* identity.links of three configurations the process may be started with
LinksBoth == <<[name |-> "alice", terminal |-> "local", telegram |-> "1"]>>

LinksTelegram == <<[name |-> "alice", terminal |-> NULL, telegram |-> "1"]>>

LinksTwo == <<[name |-> "alice", terminal |-> "local", telegram |-> NULL],
              [name |-> "bob", terminal |-> NULL, telegram |-> "1"]>>

\* the database after the runs of the process so far (each run bootstraps once)
BootedDbs ==
    { bootstrap_from_config(EmptyDb, LinksBoth),
      bootstrap_from_config(EmptyDb, LinksTwo),
      bootstrap_from_config(bootstrap_from_config(EmptyDb, LinksBoth), LinksTelegram) }

(***************************************************************************)
(* resolve: SELECT u.* FROM users u JOIN channel_identities ci             *)
(*          ON ci.user_id = u.id WHERE ci.channel = $1 AND channel_uid = $2*)
(***************************************************************************)
ResolveRows_any_uid(us, cis, channel, channel_uid) ==
    {u \in us : \E ci \in cis : ci.user_id = u.id /\ ci.channel = channel}

ResolveRows(us, cis, channel, channel_uid) ==
    {u \in us : \E ci \in cis :
        ci.user_id = u.id /\ ci.channel = channel /\ ci.channel_uid = channel_uid}

resolve(us, cis, channel, channel_uid) ==
    LET rows == ResolveRows(us, cis, channel, channel_uid)
    IN IF rows = {} THEN NoUser ELSE CHOOSE u \in rows : TRUE

(***************************************************************************)
(* Conversation rows and statements, sequential meaning.                   *)
(***************************************************************************)
ActiveRows(tbl, uid) == {r \in tbl : r.user_id = uid /\ r.is_active}

NumActive(tbl, uid) == Cardinality(ActiveRows(tbl, uid))

\* a row as INSERT INTO conversations (user_id, thread_id, model, system_prompt)
\* makes it: title NULL, is_active DEFAULT true
NewRow(id, uid, thread_id, model, system_prompt) ==
    [id |-> id, user_id |-> uid, thread_id |-> thread_id, title |-> None,
     model |-> model, system_prompt |-> system_prompt, is_active |-> TRUE]

\* get_active_conversation: fetchrow of the active rows of the user
get_active_conversation(tbl, uid) ==
    IF ActiveRows(tbl, uid) = {} THEN NoConv ELSE CHOOSE r \in ActiveRows(tbl, uid) : TRUE

\* ws: set of [id, is_active], at most one per id
ApplyWrites(tbl, ws) ==
    { IF \E w \in ws : w.id = r.id
        THEN [r EXCEPT !.is_active = (CHOOSE w \in ws : w.id = r.id).is_active]
        ELSE r : r \in tbl }

Upsert(pend, ws) ==
    {w \in pend : ~\E v \in ws : v.id = w.id} \cup ws

(***************************************************************************)
(* Transactions (asyncpg: conn.transaction(), PostgreSQL READ COMMITTED).  *)
(***************************************************************************)
Clients == 1..NClients

IdleTx == [pc |-> "idle", op |-> "none", user_id |-> 0, conv_id |-> 0, thread_id |-> 0,
           writes |-> {}, inserted |-> {}, locks |-> {}, targets |-> {},
           result |-> "none", conv |-> NoConv]

\* what a statement of client c reads: the committed rows with its own
\* uncommitted changes
View(c) == ApplyWrites(conversations, tx[c].writes) \cup tx[c].inserted

InProgress(c) == tx[c].pc \notin {"idle", "done"}

LockedByOther(c, id) == \E d \in Clients \ {c} : InProgress(d) /\ id \in tx[d].locks

\* conn.transaction(): a statement's row changes stay with the transaction
\* until COMMIT
StageWrite_autocommit(tbl, pend, ws) == [tbl |-> ApplyWrites(tbl, ws), pend |-> pend]

StageWrite(tbl, pend, ws) == [tbl |-> tbl, pend |-> Upsert(pend, ws)]

(***************************************************************************)
(* CREATE UNIQUE INDEX idx_one_active_conv ON conversations(user_id)       *)
(*     WHERE is_active = true                                              *)
(* checked when client c makes row rid of user uid active:                 *)
(*   "violation"  another live committed row of uid is active;             *)
(*   "wait"       the only conflicting entries belong to transactions in   *)
(*                progress (the statement blocks until they end);          *)
(*   "ok"         no conflicting entry.                                    *)
(***************************************************************************)
idx_dropped(c, uid, rid) == "ok"

idx_one_active_conv(c, uid, rid) ==
    LET mine == {w.id : w \in {w \in tx[c].writes : ~w.is_active}}
        committed == {r.id : r \in ActiveRows(conversations, uid)} \ ({rid} \cup mine)
        dying == {id \in committed : \E d \in Clients \ {c} :
                     InProgress(d) /\ \E w \in tx[d].writes : w.id = id /\ ~w.is_active}
        coming == {r.id : r \in UNION {ActiveRows(View(d), uid) :
                                        d \in {d \in Clients \ {c} : InProgress(d)}}}
                  \ ({r.id : r \in ActiveRows(conversations, uid)} \cup {rid})
    IN IF committed \ dying # {} THEN "violation"
       ELSE IF dying # {} \/ coming # {} THEN "wait"
       ELSE "ok"

\* ROLLBACK on an exception leaving `async with conn.transaction()`
Rollback(c, error) ==
    tx' = [tx EXCEPT ![c] = [@ EXCEPT !.pc = "done", !.writes = {}, !.inserted = {},
                                      !.locks = {}, !.targets = {},
                                      !.result = error, !.conv = NoConv]]

\* UPDATE conversations SET is_active = false WHERE user_id = $1 AND is_active = true
\* The rows are those of the statement's snapshot; a row locked by another
\* transaction blocks the statement, which re-checks the row's WHERE clause
\* on its latest version once the lock is free.
DeactivateStmt(t, c, waitpc, nextpc) ==
    LET targets == {r.id : r \in ActiveRows(ApplyWrites(conversations, t[c].writes)
                                              \cup t[c].inserted, t[c].user_id)}
        st == StageWrite(conversations, t[c].writes,
                         {[id |-> id, is_active |-> FALSE] : id \in targets})
    IN IF \E id \in targets : LockedByOther(c, id)
         THEN /\ tx' = [t EXCEPT ![c].pc = waitpc, ![c].targets = targets]
              /\ UNCHANGED conversations
         ELSE /\ tx' = [t EXCEPT ![c].pc = nextpc, ![c].writes = st.pend,
                                 ![c].locks = @ \cup targets]
              /\ conversations' = st.tbl

DeactivateResume(c, nextpc) ==
    LET still == {id \in tx[c].targets :
                     \E r \in ActiveRows(View(c), tx[c].user_id) : r.id = id}
        st == StageWrite(conversations, tx[c].writes,
                         {[id |-> id, is_active |-> FALSE] : id \in still})
    IN /\ ~\E id \in tx[c].targets : LockedByOther(c, id)
       /\ tx' = [tx EXCEPT ![c].pc = nextpc, ![c].writes = st.pend,
                           ![c].locks = @ \cup still, ![c].targets = {}]
       /\ conversations' = st.tbl

\* COMMIT
Commit(c) ==
    /\ tx[c].pc \in {"c_commit", "s_commit"}
    /\ conversations' = ApplyWrites(conversations, tx[c].writes) \cup tx[c].inserted
    /\ tx' = [tx EXCEPT ![c] = [@ EXCEPT !.pc = "done", !.writes = {}, !.inserted = {},
                                         !.locks = {}, !.result = "conv"]]
    /\ UNCHANGED <<auxVars, users, channel_identities, conversations_id_seq, uuid_seq, ops, orchVars>>

(***************************************************************************)
(* create_conversation(user_id, model, system_prompt)                      *)
(***************************************************************************)
\* thread_id = str(uuid.uuid4()); BEGIN; the deactivating UPDATE
CallCreate(c, uid) ==
    /\ tx[c].pc \in {"idle", "done"}
    /\ ops < MaxOps
    /\ ops' = ops + 1
    /\ uuid_seq' = uuid_seq + 1
    /\ LET begun == [tx EXCEPT ![c] = [IdleTx EXCEPT !.op = "create", !.user_id = uid,
                                                    !.thread_id = uuid_seq + 1]]
       IN DeactivateStmt(begun, c, "c_update_wait", "c_insert")
    /\ UNCHANGED <<auxVars, users, channel_identities, conversations_id_seq, orchVars>>

CreateDeactivateResume(c) ==
    /\ tx[c].pc = "c_update_wait"
    /\ DeactivateResume(c, "c_insert")
    /\ UNCHANGED <<auxVars, users, channel_identities, conversations_id_seq, uuid_seq, ops, orchVars>>

CreateInsert(c) ==
    /\ tx[c].pc = "c_insert"
    /\ LET id == conversations_id_seq + 1
           row == NewRow(id, tx[c].user_id, tx[c].thread_id, DefaultModel, DefaultSystemPrompt)
           idx == idx_one_active_conv(c, tx[c].user_id, id)
       IN /\ idx # "wait"
          /\ conversations_id_seq' = id
          /\ IF idx = "violation"
               THEN Rollback(c, "UniqueViolationError")
               ELSE tx' = [tx EXCEPT ![c].pc = "c_commit", ![c].inserted = {row},
                                     ![c].conv = row]
    /\ UNCHANGED <<auxVars, users, channel_identities, conversations, uuid_seq, ops, orchVars>>

(***************************************************************************)
(* switch_conversation(user_id, conv_id)                                   *)
(***************************************************************************)
\* SELECT id FROM conversations WHERE id = $1 AND user_id = $2
SwitchTarget_any_owner(view, uid, cid) == {r \in view : r.id = cid}

SwitchTarget(view, uid, cid) == {r \in view : r.id = cid /\ r.user_id = uid}

CallSwitch(c, uid, cid) ==
    /\ tx[c].pc \in {"idle", "done"}
    /\ ops < MaxOps
    /\ ops' = ops + 1
    /\ LET target == SwitchTarget(View(c), uid, cid)
       IN tx' = [tx EXCEPT ![c] =
                    IF target = {}
                      THEN [IdleTx EXCEPT !.pc = "done", !.op = "switch", !.user_id = uid,
                                          !.conv_id = cid, !.result = "None"]
                      ELSE [IdleTx EXCEPT !.pc = "s_update", !.op = "switch",
                                          !.user_id = uid, !.conv_id = cid]]
    /\ UNCHANGED <<auxVars, storeVars, orchVars>>

SwitchDeactivate(c) ==
    /\ tx[c].pc = "s_update"
    /\ DeactivateStmt(tx, c, "s_update_wait", "s_activate")
    /\ UNCHANGED <<auxVars, users, channel_identities, conversations_id_seq, uuid_seq, ops, orchVars>>

SwitchDeactivateResume(c) ==
    /\ tx[c].pc = "s_update_wait"
    /\ DeactivateResume(c, "s_activate")
    /\ UNCHANGED <<auxVars, users, channel_identities, conversations_id_seq, uuid_seq, ops, orchVars>>

\* UPDATE conversations SET is_active = true WHERE id = $1 RETURNING ...
SwitchActivate(c) ==
    /\ tx[c].pc = "s_activate"
    /\ ~LockedByOther(c, tx[c].conv_id)
    /\ LET cid == tx[c].conv_id
           rows == {r \in View(c) : r.id = cid}
           idx == idx_one_active_conv(c, tx[c].user_id, cid)
           st == StageWrite(conversations, tx[c].writes, {[id |-> cid, is_active |-> TRUE]})
       IN /\ idx # "wait"
          /\ IF idx = "violation"
               THEN /\ Rollback(c, "UniqueViolationError")
                    /\ UNCHANGED conversations
               ELSE /\ tx' = [tx EXCEPT ![c].pc = "s_commit", ![c].writes = st.pend,
                                        ![c].locks = @ \cup {cid},
                                        ![c].conv = [(CHOOSE r \in rows : TRUE)
                                                        EXCEPT !.is_active = TRUE]]
                    /\ conversations' = st.tbl
    /\ UNCHANGED <<auxVars, users, channel_identities, conversations_id_seq, uuid_seq, ops, orchVars>>

(***************************************************************************)
(* get_or_create_active_conversation(user_id, model, system_prompt)        *)
(***************************************************************************)
\* conv = await self.get_active_conversation(user_id): one SELECT on a
\* connection of its own; an active conversation is returned as it is
CallGetOrCreate(c, uid) ==
    /\ tx[c].pc \in {"idle", "done"}
    /\ ops < MaxOps
    /\ ops' = ops + 1
    /\ LET conv == get_active_conversation(conversations, uid)
       IN tx' = [tx EXCEPT ![c] =
                    IF conv # NoConv
                      THEN [IdleTx EXCEPT !.pc = "done", !.op = "get_or_create",
                                          !.user_id = uid, !.result = "conv", !.conv = conv]
                      ELSE [IdleTx EXCEPT !.pc = "g_create", !.op = "get_or_create",
                                          !.user_id = uid]]
    /\ UNCHANGED <<auxVars, storeVars, orchVars>>

\* return await self.create_conversation(...): uuid4, BEGIN, the deactivating
\* UPDATE; the call goes on as a create_conversation
GetOrCreateCreate(c) ==
    /\ tx[c].pc = "g_create"
    /\ uuid_seq' = uuid_seq + 1
    /\ LET begun == [tx EXCEPT ![c] = [@ EXCEPT !.thread_id = uuid_seq + 1]]
       IN DeactivateStmt(begun, c, "c_update_wait", "c_insert")
    /\ UNCHANGED <<auxVars, users, channel_identities, conversations_id_seq, ops, orchVars>>

(***************************************************************************)
(* SpecStore: concurrent callers of the store.                             *)
(***************************************************************************)
StoreUserIds == {u.id : u \in users}

InitStore ==
    /\ users = bootstrap_from_config(EmptyDb, LinksTwo).users
    /\ channel_identities = bootstrap_from_config(EmptyDb, LinksTwo).channel_identities
    /\ conversations = {}
    /\ conversations_id_seq = 0
    /\ uuid_seq = 0
    /\ tx = [c \in Clients |-> IdleTx]
    /\ ops = 0
    /\ shutdown_event = FALSE
    /\ _user_locks = <<>>
    /\ _active_tasks = {}
    /\ handler = <<>>
    /\ terminal = "prompt"
    /\ mainPc = "serving"
    /\ drainSet = {}
    /\ NoChunkCall
    /\ NoStreamBuffer
    /\ MainServing
    /\ NoParseCall

NextStore ==
    \E c \in Clients :
        \/ \E uid \in StoreUserIds : CallCreate(c, uid)
        \/ CreateDeactivateResume(c)
        \/ CreateInsert(c)
        \/ \E uid \in StoreUserIds : \E cid \in 1..conversations_id_seq : CallSwitch(c, uid, cid)
        \/ SwitchDeactivate(c)
        \/ SwitchDeactivateResume(c)
        \/ SwitchActivate(c)
        \/ \E uid \in StoreUserIds : CallGetOrCreate(c, uid)
        \/ GetOrCreateCreate(c)
        \/ Commit(c)

SpecStore == InitStore /\ [][NextStore]_vars

(***************************************************************************)
(* Claims about the conversation store, checked under SpecStore.           *)
(***************************************************************************)
\* C2: at every observation of the committed conversations table, every user
\* has at most one conversation with is_active = true, also right after two
\* concurrent create_conversation calls for the same user.
C2_SingleActive ==
    \A uid \in StoreUserIds : NumActive(conversations, uid) <= 1

\* C2 witness: two create_conversation calls for one user overlapped (the
\* second ran into the first one's index entry) and both have returned.
C2_Witness ==
    \E c \in Clients : \E d \in Clients \ {c} :
        /\ tx[c].op = "create" /\ tx[d].op = "create"
        /\ tx[c].user_id = tx[d].user_id
        /\ tx[c].pc = "done" /\ tx[c].result = "conv"
        /\ tx[d].pc = "done" /\ tx[d].result = "UniqueViolationError"
        /\ NumActive(conversations, tx[c].user_id) = 1

\* C3: once a user has one active conversation, every later observation of
\* the committed table finds exactly one for that user, under every
\* interleaving of create_conversation and switch_conversation: no step takes
\* the table from one active row to none or to two.
C3_ActivationAtomic ==
    [][\A uid \in StoreUserIds :
          NumActive(conversations, uid) = 1 => NumActive(conversations', uid) = 1]_vars

\* C3 witness: a switch has staged its deactivate and activate and not yet
\* committed, a concurrent create for the same user waits on the row lock,
\* and an observer still sees one active conversation.
C3_Witness ==
    \E c \in Clients : \E d \in Clients \ {c} :
        /\ tx[c].op = "create" /\ tx[d].op = "switch"
        /\ tx[c].user_id = tx[d].user_id
        /\ tx[c].pc = "c_update_wait"
        /\ tx[d].pc = "s_commit"
        /\ \E w \in tx[d].writes : ~w.is_active
        /\ NumActive(conversations, tx[d].user_id) = 1


\* client c's call returns in this step
Returns(c) == tx[c].pc # "done" /\ tx'[c].pc = "done"

\* C11: every get_or_create_active_conversation call returns a conversation,
\* which is then the user's active conversation, and returns the active
\* conversation it found without creating one; this also under concurrent
\* calls for a user with no active conversation.
C11_GetOrCreate ==
    [][\A c \in Clients :
          (Returns(c) /\ tx'[c].op = "get_or_create")
              => /\ tx'[c].result = "conv"
                 /\ tx'[c].conv \in ActiveRows(conversations', tx'[c].user_id)
                 /\ Cardinality({r \in conversations' : r.user_id = tx'[c].user_id})
                        <= Cardinality({r \in conversations : r.user_id = tx'[c].user_id}) + 1]_vars

\* C12: a switch_conversation whose target does not exist or belongs to
\* another user returns None without raising, and leaves every conversation
\* as it was.
C12_SwitchOwnership ==
    [][\A c \in Clients :
          (/\ tx[c].pc \in {"idle", "done"}
           /\ tx'[c] # tx[c]
           /\ tx'[c].op = "switch"
           /\ ~\E r \in conversations : r.id = tx'[c].conv_id /\ r.user_id = tx'[c].user_id)
              => /\ tx'[c].pc = "done"
                 /\ tx'[c].result = "None"
                 /\ conversations' = conversations]_vars

\* a switch to another user's existing conversation came back None while the
\* caller's conversation is still the active one
C12_Witness ==
    \E c \in Clients :
        /\ tx[c].op = "switch" /\ tx[c].pc = "done" /\ tx[c].result = "None"
        /\ \E r \in conversations : r.id = tx[c].conv_id /\ r.user_id # tx[c].user_id
        /\ NumActive(conversations, tx[c].user_id) = 1

(***************************************************************************)
(* Text.  A str is a sequence of one-character strings.                    *)
(***************************************************************************)
Whitespace == {" ", "\t", "\n"}

UpperCase == <<"A", "B", "C", "D", "E", "F", "G", "H", "I", "J", "K", "L", "M",
               "N", "O", "P", "Q", "R", "S", "T", "U", "V", "W", "X", "Y", "Z">>

LowerCase == <<"a", "b", "c", "d", "e", "f", "g", "h", "i", "j", "k", "l", "m",
               "n", "o", "p", "q", "r", "s", "t", "u", "v", "w", "x", "y", "z">>

RECURSIVE LStrip(_)
LStrip(s) ==
    IF s = <<>> THEN s
    ELSE IF Head(s) \in Whitespace THEN LStrip(Tail(s)) ELSE s

RECURSIVE RStrip(_)
RStrip(s) ==
    IF s = <<>> THEN s
    ELSE IF s[Len(s)] \in Whitespace THEN RStrip(SubSeq(s, 1, Len(s) - 1)) ELSE s

\* str.strip()
Strip(s) == RStrip(LStrip(s))

\* str.lower()
Lower_unchanged(s) == s

Lower(s) ==
    [i \in 1..Len(s) |->
        IF \E k \in 1..Len(UpperCase) : UpperCase[k] = s[i]
          THEN LowerCase[CHOOSE k \in 1..Len(UpperCase) : UpperCase[k] = s[i]]
          ELSE s[i]]

RECURSIVE TokenLen(_)
TokenLen(s) ==
    IF s = <<>> \/ Head(s) \in Whitespace THEN 0 ELSE 1 + TokenLen(Tail(s))

\* str.split(None, 1) of a string with no leading whitespace
Split1(s) ==
    LET n == TokenLen(s)
        rest == LStrip(SubSeq(s, n + 1, Len(s)))
    IN IF rest = <<>> THEN <<SubSeq(s, 1, n)>> ELSE <<SubSeq(s, 1, n), rest>>

NoParse == [command |-> <<>>, args |-> <<>>]

StartsWithSlash(s) == s # <<>> /\ Head(s) = "/"

parse_slash_command(text) ==
    LET t == Strip(text)
        parts == Split1(t)
    IN IF ~StartsWithSlash(t) THEN NoParse
       ELSE [command |-> Lower(parts[1]),
             args |-> IF Len(parts) > 1 THEN parts[2] ELSE <<>>]

CmdNew == <<"/", "n", "e", "w">>

CmdHistory == <<"/", "h", "i", "s", "t", "o", "r", "y">>

CmdSwitch == <<"/", "s", "w", "i", "t", "c", "h">>

CmdTitle == <<"/", "t", "i", "t", "l", "e">>

CmdModel == <<"/", "m", "o", "d", "e", "l">>

CmdSystem == <<"/", "s", "y", "s", "t", "e", "m">>

CmdHelp == <<"/", "h", "e", "l", "p">>

(***************************************************************************)
(* Inbound messages.                                                       *)
(***************************************************************************)
\* who can write to the adapters: the terminal's one sender and two Telegram
\* users (the second is linked to no user in any configuration)
Senders == { [channel |-> "terminal", channel_uid |-> "local"],
             [channel |-> "telegram", channel_uid |-> "1"],
             [channel |-> "telegram", channel_uid |-> "2"] }

\* what they type: "hi", "/new", " /Foo x", "/title T"
Texts == { <<"h", "i">>,
           <<"/", "n", "e", "w">>,
           <<" ", "/", "F", "o", "o", " ", "x">>,
           <<"/", "t", "i", "t", "l", "e", " ", "T">> }

\* TerminalChannel.start strips the line it read; Telegram passes message.text on
AdapterText(channel, text) == IF channel = "terminal" THEN Strip(text) ELSE text

\* a send_text payload: the literal part and, for an f-string, the value put
\* into it
Reply(fmt, arg) == [fmt |-> fmt, arg |-> arg]

ShutdownNotice == Reply("Bot is shutting down, please try again later.", <<>>)

AccessDenied == Reply("Access denied.", <<>>)

ErrorNotice == Reply("An error occurred processing your message.", <<>>)

(***************************************************************************)
(* AgentManager (agent.py) and the stream request of _stream_response.     *)
(* An agent is built once per model string and cached; whatever the model, *)
(* it is built with the manager's default_system_prompt, which main() sets *)
(* from config.provider.system_prompt.                                     *)
(***************************************************************************)
\* `model or self.default_model`
ModelOrDefault(model) == IF model \in {None, <<>>} THEN DefaultModel ELSE model

\* _create_agent's system_prompt argument, for the agent that serves conv
AgentPrompt(conv) == DefaultSystemPrompt

\* get_agent(model=conv.model) and config = {"configurable": {"thread_id":
\* conv.thread_id}}: what agent.astream is requested with
AgentRequest(conv) ==
    [thread_id |-> conv.thread_id, model |-> ModelOrDefault(conv.model),
     system_prompt |-> AgentPrompt(conv)]

\* no stream was requested
NoRequest == [thread_id |-> 0, model |-> None, system_prompt |-> None]

(***************************************************************************)
(* A handle_message call.  pc is the await the call is suspended at:       *)
(*   wait_lock     lock.acquire(), queued behind the holder                *)
(*   cmd           inside _handle_command                                  *)
(*   chat          get_or_create_active_conversation                       *)
(*   stream        the next item of agent.astream                          *)
(*   await_typing  `await typing_task` in the finally block                *)
(*   flushing      channel.flush                                           *)
(*   done          returned or raised                                      *)
(***************************************************************************)
NewHandler(msg, gate) ==
    [pc |-> "done", channel |-> msg.channel, channel_uid |-> msg.channel_uid,
     text |-> msg.text, gate |-> gate, user |-> NoUser,
     command |-> <<>>, args |-> <<>>, sent |-> <<>>, tokens |-> <<>>, flushes |-> 0,
     typing |-> "none", typing_sends |-> 0, typing_failed |-> FALSE,
     nfrag |-> 0, raised |-> FALSE, pending |-> "none", exc |-> "none",
     cancel |-> FALSE, cancelled |-> FALSE, created |-> "none", conv |-> NoConv,
     request |-> NoRequest]

InSectionPcs == {"cmd", "chat", "stream", "await_typing", "flushing"}

InSection(m) == handler[m].pc \in InSectionPcs

Handlers == 1..Len(handler)

(***************************************************************************)
(* asyncio.Lock: `locked` and the FIFO of waiting acquirers.               *)
(***************************************************************************)
FreeLock == [locked |-> FALSE, waiters |-> <<>>]

\* Orchestrator._get_lock
_get_lock(locks, user_name) ==
    IF user_name \in DOMAIN locks THEN locks
    ELSE [n \in DOMAIN locks \cup {user_name} |->
             IF n = user_name THEN FreeLock ELSE locks[n]]

\* Lock.acquire's fast path: not locked and nobody queued
CanAcquire_unchecked(lock) == TRUE

CanAcquire(lock) == ~lock.locked /\ lock.waiters = <<>>

\* Lock.release: unlocked; the first waiter's future is resolved
Release_never(locks, user_name) == locks

Release(locks, user_name) == [locks EXCEPT ![user_name].locked = FALSE]

\* the shutdown check at the top of handle_message
ShutdownGate_off(event) == FALSE

ShutdownGate(event) == event

\* parsed is not None
IsCommand_known_only(parsed) ==
    parsed.command \in {CmdNew, CmdHistory, CmdSwitch, CmdTitle, CmdModel, CmdSystem, CmdHelp}

IsCommand(parsed) == parsed # NoParse

\* handle_message, lines 61-69: the task is recorded as active, the text is
\* parsed and the call suspends at the first await of the command or chat
\* branch
EnterSection(h) ==
    LET parsed == parse_slash_command(h.text)
    IN IF IsCommand(parsed)
         THEN [h EXCEPT !.pc = "cmd", !.command = parsed.command, !.args = parsed.args]
         ELSE [h EXCEPT !.pc = "chat"]

\* TerminalChannel.start awaits handle_message inline: an exception leaving
\* the handler ends the loop's task, and a normal return brings the loop back
\* to `while not shutdown_event.is_set()`
TerminalAfter(h, event) ==
    IF h.channel # "terminal" THEN terminal
    ELSE IF h.exc # "none" THEN "crashed"
    ELSE IF event THEN "exited"
    ELSE "prompt"

\* TelegramChannel.start: the dispatcher delivers updates until stop_polling
\* succeeds or the adapter's task is cancelled
Polling ==
    /\ channel_tasks = "running"
    /\ \A i \in 1..Len(stopped) : ~(stopped[i].name = "telegram" /\ stopped[i].ok)

\* handle_message, lines 47-60, up to the first suspension
HandleMessage(channel, channel_uid, text) ==
    /\ Len(handler) < MaxMsgs
    /\ channel = "terminal" => terminal = "prompt"
    /\ channel = "telegram" => Polling
    /\ LET m == Len(handler) + 1
           msg == [channel |-> channel, channel_uid |-> channel_uid,
                   text |-> AdapterText(channel, text)]
           h0 == NewHandler(msg, shutdown_event)
           user == resolve(users, channel_identities, channel, channel_uid)
           locks == _get_lock(_user_locks, user.name)
       IN IF ShutdownGate(shutdown_event)
            THEN /\ handler' = Append(handler, [h0 EXCEPT !.sent = <<ShutdownNotice>>])
                 /\ terminal' = TerminalAfter(h0, shutdown_event)
                 /\ UNCHANGED <<_user_locks, _active_tasks>>
          ELSE IF user = NoUser
            THEN /\ handler' = Append(handler, [h0 EXCEPT !.sent = <<AccessDenied>>])
                 /\ terminal' = TerminalAfter(h0, shutdown_event)
                 /\ UNCHANGED <<_user_locks, _active_tasks>>
          ELSE IF CanAcquire(locks[user.name])
            THEN /\ _user_locks' = [locks EXCEPT ![user.name].locked = TRUE]
                 /\ _active_tasks' = _active_tasks \cup {m}
                 /\ handler' = Append(handler, EnterSection([h0 EXCEPT !.user = user]))
                 /\ terminal' = IF channel = "terminal" THEN "handling" ELSE terminal
          ELSE   /\ _user_locks' = [locks EXCEPT ![user.name].waiters = Append(@, m)]
                 /\ handler' = Append(handler, [h0 EXCEPT !.user = user, !.pc = "wait_lock"])
                 /\ terminal' = IF channel = "terminal" THEN "handling" ELSE terminal
                 /\ UNCHANGED _active_tasks
    /\ UNCHANGED <<auxVars, storeVars, tx, ops, shutdown_event, mainPc, drainSet>>

\* Lock.acquire resumes: the released lock's first waiter takes it and enters
\* the section
LockAcquired(m) ==
    /\ m \in Handlers
    /\ handler[m].pc = "wait_lock"
    /\ LET name == handler[m].user.name
       IN /\ ~_user_locks[name].locked
          /\ _user_locks[name].waiters # <<>>
          /\ Head(_user_locks[name].waiters) = m
          /\ _user_locks' = [_user_locks EXCEPT ![name].locked = TRUE,
                                                ![name].waiters = Tail(@)]
    /\ _active_tasks' = _active_tasks \cup {m}
    /\ handler' = [handler EXCEPT ![m] = EnterSection(@)]
    /\ UNCHANGED <<auxVars, storeVars, tx, ops, shutdown_event, terminal, mainPc, drainSet>>

\* leaving `async with lock`: the finally block discards the task, the lock
\* is released, and the call returns or raises
ExitSection(m, h) ==
    /\ handler' = [handler EXCEPT ![m] = [h EXCEPT !.pc = "done"]]
    /\ _active_tasks' = _active_tasks \ {m}
    /\ _user_locks' = Release(_user_locks, h.user.name)
    /\ terminal' = TerminalAfter(h, shutdown_event)

(***************************************************************************)
(* The conversation operations as one handler inside its user's section    *)
(* runs them (each call's transaction runs alone for that user).           *)
(***************************************************************************)
Digits == <<"0", "1", "2", "3", "4", "5", "6", "7", "8", "9">>

\* str() of a non-negative number
RECURSIVE ToText(_)
ToText(n) ==
    IF n < 10 THEN <<Digits[n + 1]>> ELSE ToText(n \div 10) \o <<Digits[(n % 10) + 1]>>

\* thread_id[:8]
Short(thread_id) ==
    LET t == ToText(thread_id) IN SubSeq(t, 1, IF Len(t) < 8 THEN Len(t) ELSE 8)

\* a Python value handed to asyncpg as a query argument
PyInt(n) == [type |-> "int", int |-> n, str |-> <<>>]

PyStr(t) == [type |-> "str", int |-> 0, str |-> t]

\* create_conversation run alone: deactivate, insert, commit
create_conversation(tbl, id, uid, thread_id, model, system_prompt) ==
    ApplyWrites(tbl, {[id |-> r.id, is_active |-> FALSE] : r \in ActiveRows(tbl, uid)})
        \cup {NewRow(id, uid, thread_id, model, system_prompt)}

\* switch_conversation run alone.  conv_id is compared with the integer
\* column id: asyncpg refuses to encode a str for it (DataError).  The table
\* is unchanged and None returned when the target is not a conversation of
\* the user.
switch_conversation(tbl, uid, conv_id) ==
    IF conv_id.type # "int" THEN [exc |-> "DataError", tbl |-> tbl, conv |-> NoConv]
    ELSE IF SwitchTarget(tbl, uid, conv_id.int) = {}
      THEN [exc |-> "none", tbl |-> tbl, conv |-> NoConv]
    ELSE LET t == ApplyWrites(
                      ApplyWrites(tbl, {[id |-> r.id, is_active |-> FALSE] :
                                           r \in ActiveRows(tbl, uid)}),
                      {[id |-> conv_id.int, is_active |-> TRUE]})
         IN [exc |-> "none", tbl |-> t,
             conv |-> CHOOSE r \in t : r.id = conv_id.int]

\* update_conversation_title / _model / _system_prompt:
\* UPDATE conversations SET <field> = $1 WHERE id = $2, with the same
\* encoding of conv_id
update_conversation(tbl, conv_id, field, value) ==
    IF conv_id.type # "int" THEN [exc |-> "DataError", tbl |-> tbl]
    ELSE [exc |-> "none",
          tbl |-> {IF r.id = conv_id.int THEN [r EXCEPT ![field] = value] ELSE r : r \in tbl}]

OrUntitled(title) == IF title = None THEN <<"(untitled)">> ELSE title

\* help_text (its dashes written as "-")
HelpText ==
    "Commands:\n  /new - New conversation\n  /history - List conversations\n  /switch <prefix> - Switch conversation by thread_id prefix\n  /title <text> - Set title\n  /model [provider:model] - Show/change model\n  /system <prompt> - Change system prompt\n  /help - This help"

\* whether the command's branch calls the store
UsesStore(command, args) ==
    \/ command \in {CmdNew, CmdHistory, CmdModel}
    \/ command \in {CmdSwitch, CmdTitle, CmdSystem} /\ Strip(args) # <<>>

\* _handle_command when the store is available: the table, the sequences and
\* the reply it leaves, or the exception a call raises.  The conversation
\* operations are given the thread-id prefix (/switch) and conv.thread_id
\* (/title, /model, /system), both str.
CommandOutcome(h, tbl, idseq, useq) ==
    LET uid == h.user.id
        arg == Strip(h.args)
        act == get_active_conversation(tbl, uid)
        with(t, reply) == [tbl |-> t, idseq |-> idseq, useq |-> useq, reply |-> reply,
                           created |-> "none", exc |-> "none"]
        same(reply) == with(tbl, reply)
        raises(exc) == [tbl |-> tbl, idseq |-> idseq, useq |-> useq,
                        reply |-> Reply("", <<>>), created |-> "none", exc |-> exc]
        updated(field, reply) ==
            LET u == update_conversation(tbl, PyStr(ToText(act.thread_id)), field, arg)
            IN IF u.exc # "none" THEN raises(u.exc) ELSE with(u.tbl, reply)
    IN CASE h.command = CmdNew ->
              [tbl |-> create_conversation(tbl, idseq + 1, uid, useq + 1,
                                           DefaultModel, DefaultSystemPrompt),
               idseq |-> idseq + 1, useq |-> useq + 1,
               reply |-> Reply("New conversation created. Thread: {}...", Short(useq + 1)),
               created |-> "new", exc |-> "none"]
         [] h.command = CmdHistory ->
              IF {r \in tbl : r.user_id = uid} = {}
                THEN same(Reply("No conversations yet.", <<>>))
                ELSE same(Reply("Conversations:", <<>>))  \* the listing's lines are left out
         [] h.command = CmdSwitch ->
              IF arg = <<>> THEN same(Reply("Usage: /switch <thread_id_prefix>", <<>>))
              ELSE LET sw == switch_conversation(tbl, uid, PyStr(arg))
                   IN IF sw.exc # "none" THEN raises(sw.exc)
                      ELSE IF sw.conv = NoConv
                        THEN same(Reply("Conversation not found.", <<>>))
                        ELSE with(sw.tbl,
                                  Reply("Switched to [{}] {}",
                                        Short(sw.conv.thread_id) \o OrUntitled(sw.conv.title)))
         [] h.command = CmdTitle ->
              IF arg = <<>> THEN same(Reply("Usage: /title <text>", <<>>))
              ELSE IF act = NoConv THEN same(Reply("No active conversation.", <<>>))
              ELSE updated("title", Reply("Title set: {}", arg))
         [] h.command = CmdModel ->
              IF arg = <<>>
                THEN same(Reply("Current model: {}",
                                IF act = NoConv THEN DefaultModel ELSE act.model))
              ELSE IF act = NoConv THEN same(Reply("No active conversation.", <<>>))
              ELSE updated("model", Reply("Model changed to: {}", arg))
         [] h.command = CmdSystem ->
              IF arg = <<>> THEN same(Reply("Usage: /system <prompt>", <<>>))
              ELSE IF act = NoConv THEN same(Reply("No active conversation.", <<>>))
              ELSE updated("system_prompt", Reply("System prompt updated.", <<>>))
         [] h.command = CmdHelp -> same(Reply(HelpText, <<>>))
         [] OTHER -> same(Reply("Unknown command: {}", h.command))

\* _handle_command: the branch runs and replies through send_text, or a store
\* call raises; either way the section is left
RunCommand(m) ==
    /\ m \in Handlers
    /\ handler[m].pc = "cmd"
    /\ ~handler[m].cancel
    /\ \E ok \in BOOLEAN :
        LET h == handler[m]
            out == CommandOutcome(h, conversations, conversations_id_seq, uuid_seq)
        IN IF ok /\ out.exc # "none"
             THEN /\ ExitSection(m, [h EXCEPT !.exc = out.exc])
                  /\ UNCHANGED <<conversations, conversations_id_seq, uuid_seq>>
           ELSE IF ok
             THEN /\ conversations' = out.tbl
                  /\ conversations_id_seq' = out.idseq
                  /\ uuid_seq' = out.useq
                  /\ ExitSection(m, [h EXCEPT !.sent = Append(@, out.reply),
                                              !.created = out.created])
             ELSE /\ UsesStore(h.command, h.args)
                  /\ ExitSection(m, [h EXCEPT !.exc = "StoreError"])
                  /\ UNCHANGED <<conversations, conversations_id_seq, uuid_seq>>
    /\ UNCHANGED <<auxVars, users, channel_identities, tx, ops, shutdown_event, mainPc, drainSet>>

(***************************************************************************)
(* The chat turn: _handle_chat and _stream_response.                       *)
(***************************************************************************)
\* what agent.astream may yield: (namespace, (token, metadata)) with
\* token.content a str or a list of blocks
StrContent(s) == [kind |-> "str", str |-> s, blocks |-> <<>>]

ListContent(bs) == [kind |-> "list", str |-> <<>>, blocks |-> bs]

Fragments ==
    { [namespace |-> <<>>, tool_call_chunks |-> FALSE, content |-> StrContent(<<"a">>)],
      [namespace |-> <<"sub">>, tool_call_chunks |-> FALSE, content |-> StrContent(<<"b">>)],
      [namespace |-> <<>>, tool_call_chunks |-> TRUE, content |-> StrContent(<<"c">>)],
      [namespace |-> <<>>, tool_call_chunks |-> FALSE,
       content |-> ListContent(<<[type |-> "text", text |-> <<"d">>],
                                 [type |-> "image", text |-> <<>>],
                                 [type |-> "text", text |-> <<"e">>]>>)],
      [namespace |-> <<>>, tool_call_chunks |-> FALSE,
       content |-> ListContent(<<[type |-> "reasoning", text |-> <<"r">>],
                                 [type |-> "text", text |-> <<"f">>]>>)] }

\* "".join(block.get("text", "") for block in content), every block a dict;
\* a block's text field is <<>> when the block has no "text" key
RECURSIVE JoinText(_)
JoinText(blocks) ==
    IF blocks = <<>> THEN <<>> ELSE Head(blocks).text \o JoinText(Tail(blocks))

Truthy(content) ==
    IF content.kind = "str" THEN content.str # <<>> ELSE content.blocks # <<>>

\* lines 190-199: what of a fragment reaches send_token (<<>>: nothing)
Forwarded(frag) ==
    IF frag.namespace = <<>> /\ Truthy(frag.content) /\ ~frag.tool_call_chunks
      THEN LET content == IF frag.content.kind = "list"
                            THEN JoinText(frag.content.blocks)
                            ELSE frag.content.str
           IN IF content # <<>> THEN <<content>> ELSE <<>>
      ELSE <<>>

\* get_or_create_active_conversation, then the agent of conv.model is taken
\* from the manager, typing_task is created and the stream requested
ChatBegin(m) ==
    /\ m \in Handlers
    /\ handler[m].pc = "chat"
    /\ ~handler[m].cancel
    /\ \E ok \in BOOLEAN :
        LET h == handler[m]
            act == get_active_conversation(conversations, h.user.id)
            row == NewRow(conversations_id_seq + 1, h.user.id, uuid_seq + 1,
                          DefaultModel, DefaultSystemPrompt)
        IN IF ~ok
             THEN /\ ExitSection(m, [h EXCEPT !.exc = "StoreError"])
                  /\ UNCHANGED <<conversations, conversations_id_seq, uuid_seq>>
           ELSE IF act # NoConv
             THEN /\ handler' = [handler EXCEPT ![m] =
                        [h EXCEPT !.pc = "stream", !.typing = "new", !.conv = act,
                                  !.request = AgentRequest(act)]]
                  /\ UNCHANGED <<conversations, conversations_id_seq, uuid_seq,
                                 _active_tasks, _user_locks, terminal>>
           ELSE   /\ conversations' = create_conversation(conversations, row.id, row.user_id,
                                          row.thread_id, row.model, row.system_prompt)
                  /\ conversations_id_seq' = row.id
                  /\ uuid_seq' = row.thread_id
                  /\ handler' = [handler EXCEPT ![m] =
                        [h EXCEPT !.pc = "stream", !.typing = "new", !.conv = row,
                                  !.created = "lazy", !.request = AgentRequest(row)]]
                  /\ UNCHANGED <<_active_tasks, _user_locks, terminal>>
    /\ UNCHANGED <<auxVars, users, channel_identities, tx, ops, shutdown_event, mainPc, drainSet>>

\* the finally block of _stream_response begins: typing_task.cancel(), then
\* `await typing_task`
Cleanup(h) ==
    [h EXCEPT !.pc = "await_typing",
              !.typing = IF @ = "done" THEN "done" ELSE "cancelling"]

\* except Exception: the failure is logged and the error notice sent
OnStreamError_reraise(h) == [h EXCEPT !.raised = TRUE, !.pending = "Exception"]

OnStreamError(h) == [h EXCEPT !.raised = TRUE, !.sent = Append(@, ErrorNotice)]

\* what follows `await typing_task`: channel.flush is called
AfterTyping_unless_failed(h) ==
    IF h.pending = "none" /\ ~h.raised
      THEN [h EXCEPT !.pc = "flushing", !.flushes = @ + 1]
      ELSE [h EXCEPT !.pc = "flushing"]

AfterTyping(h) == [h EXCEPT !.pc = "flushing", !.flushes = @ + 1]

\* `await typing_task` has a result for the handler
TypingEnded_no_wait(h) == TRUE

TypingEnded(h) == h.typing = "done"

\* the agent yields one more fragment
StreamNext(m, frag) ==
    /\ m \in Handlers
    /\ handler[m].pc = "stream"
    /\ ~handler[m].cancel
    /\ handler[m].nfrag < MaxFragments
    /\ handler' = [handler EXCEPT ![m].nfrag = @ + 1,
                                  ![m].tokens = @ \o Forwarded(frag)]
    /\ UNCHANGED <<auxVars, storeVars, tx, ops, shutdown_event, _user_locks, _active_tasks,
                   terminal, mainPc, drainSet>>

\* the stream ends
StreamEnd(m) ==
    /\ m \in Handlers
    /\ handler[m].pc = "stream"
    /\ ~handler[m].cancel
    /\ handler' = [handler EXCEPT ![m] = Cleanup(@)]
    /\ UNCHANGED <<auxVars, storeVars, tx, ops, shutdown_event, _user_locks, _active_tasks,
                   terminal, mainPc, drainSet>>

\* the stream raises
StreamRaise(m) ==
    /\ m \in Handlers
    /\ handler[m].pc = "stream"
    /\ ~handler[m].cancel
    /\ handler' = [handler EXCEPT ![m] = Cleanup(OnStreamError(@))]
    /\ UNCHANGED <<auxVars, storeVars, tx, ops, shutdown_event, _user_locks, _active_tasks,
                   terminal, mainPc, drainSet>>

\* _typing_loop: one send_typing, then sleep(4).  TelegramChannel.send_typing
\* swallows a rejected send_chat_action; TerminalChannel.send_typing does
\* nothing.
TypingSend(m, ok) ==
    /\ m \in Handlers
    /\ handler[m].typing \in {"new", "sleep"}
    /\ handler[m].typing_sends < MaxTyping
    /\ ok \/ handler[m].channel = "telegram"
    /\ handler' = [handler EXCEPT ![m].typing = "sleep",
                                  ![m].typing_sends = @ + 1,
                                  ![m].typing_failed = @ \/ ~ok]
    /\ UNCHANGED <<auxVars, storeVars, tx, ops, shutdown_event, _user_locks, _active_tasks,
                   terminal, mainPc, drainSet>>

\* the cancelled typing task takes its CancelledError and ends
TypingExit(m) ==
    /\ m \in Handlers
    /\ handler[m].typing = "cancelling"
    /\ handler' = [handler EXCEPT ![m].typing = "done"]
    /\ UNCHANGED <<auxVars, storeVars, tx, ops, shutdown_event, _user_locks, _active_tasks,
                   terminal, mainPc, drainSet>>

\* `await typing_task` returns; flush is called
Flush(m) ==
    /\ m \in Handlers
    /\ handler[m].pc = "await_typing"
    /\ TypingEnded(handler[m])
    /\ ~handler[m].cancel
    /\ handler' = [handler EXCEPT ![m] = AfterTyping(@)]
    /\ UNCHANGED <<auxVars, storeVars, tx, ops, shutdown_event, _user_locks, _active_tasks,
                   terminal, mainPc, drainSet>>

\* flush returns; the finally block ends, re-raising what was in flight
FlushReturn(m) ==
    /\ m \in Handlers
    /\ handler[m].pc = "flushing"
    /\ ~handler[m].cancel
    /\ ExitSection(m, [handler[m] EXCEPT !.exc = handler[m].pending, !.pending = "none"])
    /\ UNCHANGED <<auxVars, storeVars, tx, ops, shutdown_event, mainPc, drainSet>>

\* the queue of a lock without one waiter
RECURSIVE Without(_, _)
Without(waiters, m) ==
    IF waiters = <<>> THEN <<>>
    ELSE IF Head(waiters) = m THEN Without(Tail(waiters), m)
    ELSE <<Head(waiters)>> \o Without(Tail(waiters), m)

\* task.cancel() takes effect: CancelledError is raised at the await the
\* handler is suspended at.  A handler suspended in `await typing_task` has
\* its cancellation passed on to the typing task (Task.cancel cancels the
\* awaited future): it resumes when the typing task has ended, and
\* _typing_loop's `except asyncio.CancelledError: pass` or the finally
\* block's own has swallowed the request, so flush is called.  A handler
\* queued in Lock.acquire leaves the queue and never enters the section.
DeliverCancel(m) ==
    /\ m \in Handlers
    /\ handler[m].cancel
    /\ InSection(m) \/ handler[m].pc = "wait_lock"
    /\ LET h == [handler[m] EXCEPT !.cancel = FALSE, !.cancelled = TRUE]
       IN CASE h.pc \in {"cmd", "chat", "flushing"} ->
                 ExitSection(m, [h EXCEPT !.exc = "CancelledError", !.pending = "none"])
            [] h.pc = "stream" ->
                 /\ handler' = [handler EXCEPT ![m] =
                                    Cleanup([h EXCEPT !.pending = "CancelledError"])]
                 /\ UNCHANGED <<_active_tasks, _user_locks, terminal>>
            [] h.pc = "await_typing" ->
                 /\ TypingEnded(h)
                 /\ handler' = [handler EXCEPT ![m] = AfterTyping(h)]
                 /\ UNCHANGED <<_active_tasks, _user_locks, terminal>>
            [] h.pc = "wait_lock" ->
                 /\ handler' = [handler EXCEPT ![m] =
                                    [h EXCEPT !.pc = "done", !.exc = "CancelledError"]]
                 /\ _user_locks' = [_user_locks EXCEPT ![h.user.name].waiters =
                                                          Without(@, m)]
                 /\ terminal' = TerminalAfter([h EXCEPT !.exc = "CancelledError"],
                                              shutdown_event)
                 /\ UNCHANGED _active_tasks
    /\ UNCHANGED <<auxVars, storeVars, tx, ops, shutdown_event, mainPc, drainSet>>

(***************************************************************************)
(* main(): the shutdown signal and the drain.                              *)
(***************************************************************************)
\* SIGINT / SIGTERM: _signal_handler sets the event
Signal ==
    /\ mainPc = "serving"
    /\ shutdown_event' = TRUE
    /\ mainPc' = "signalled"
    /\ UNCHANGED <<auxVars, storeVars, tx, ops, _user_locks, _active_tasks, handler, terminal, drainSet>>

\* EOF or Ctrl-C at the terminal prompt: the loop sets the event and breaks
TerminalEOF ==
    /\ terminal = "prompt"
    /\ terminal' = "exited"
    /\ shutdown_event' = TRUE
    /\ mainPc' = IF mainPc = "serving" THEN "signalled" ELSE mainPc
    /\ UNCHANGED <<auxVars, storeVars, tx, ops, _user_locks, _active_tasks, handler, drainSet>>

\* wait_for_active_tasks: nothing to wait for, or asyncio.wait on the tasks
\* active now
BeginDrain ==
    /\ mainPc = "signalled"
    /\ drainSet' = _active_tasks
    /\ mainPc' = IF _active_tasks = {} THEN "drained" ELSE "draining"
    /\ UNCHANGED <<auxVars, storeVars, tx, ops, shutdown_event, _user_locks, _active_tasks,
                   handler, terminal>>

\* asyncio.wait returns with nothing pending
DrainComplete ==
    /\ mainPc = "draining"
    /\ \A t \in drainSet : handler[t].pc = "done"
    /\ mainPc' = "drained"
    /\ UNCHANGED <<auxVars, storeVars, tx, ops, shutdown_event, _user_locks, _active_tasks,
                   handler, terminal, drainSet>>

\* asyncio.wait times out: every pending task is cancelled
DrainTimeout_no_cancel ==
    /\ mainPc = "draining"
    /\ \E t \in drainSet : handler[t].pc # "done"
    /\ mainPc' = "drained"
    /\ UNCHANGED <<auxVars, storeVars, tx, ops, shutdown_event, _user_locks, _active_tasks,
                   handler, terminal, drainSet>>

DrainTimeout ==
    /\ mainPc = "draining"
    /\ \E t \in drainSet : handler[t].pc # "done"
    /\ handler' = [t \in Handlers |->
                      IF t \in drainSet /\ handler[t].pc # "done"
                        THEN [handler[t] EXCEPT !.cancel = TRUE] ELSE handler[t]]
    /\ mainPc' = "drained"
    /\ UNCHANGED <<auxVars, storeVars, tx, ops, shutdown_event, _user_locks, _active_tasks,
                   terminal, drainSet>>

\* the adapters main() started, in the order of `channels`
Channels == <<"terminal", "telegram">>

\* the pools main() closes, in the order it closes them
Pools == <<"pool", "checkpointer_pool", "store_pool">>

\* step 2: the next ch.stop(), inside try / except Exception.
\* TerminalChannel.stop only logs; TelegramChannel.stop may raise.
StopChannel(ok) ==
    /\ mainPc = "drained"
    /\ Len(stopped) < Len(Channels)
    /\ ok \/ Channels[Len(stopped) + 1] = "telegram"
    /\ stopped' = Append(stopped, [name |-> Channels[Len(stopped) + 1], ok |-> ok])
    /\ UNCHANGED <<chunkVars, bufVars, parseVars, channel_tasks, pools, storeVars, tx, ops,
                   orchVars>>

\* step 3: every channel task is cancelled and gathered.  The terminal
\* adapter's task is the task of the handle_message call it awaits inline.
CancelChannelTasks_early ==
    /\ mainPc = "drained"
    /\ channel_tasks' = "cancelled"
    /\ mainPc' = "closing"
    /\ terminal' = IF terminal = "prompt" THEN "exited" ELSE terminal
    /\ handler' = [t \in Handlers |->
                      IF handler[t].channel = "terminal" /\ handler[t].pc # "done"
                        THEN [handler[t] EXCEPT !.cancel = TRUE] ELSE handler[t]]
    /\ UNCHANGED <<chunkVars, bufVars, parseVars, stopped, pools, storeVars, tx, ops, shutdown_event,
                   _user_locks, _active_tasks, drainSet>>

CancelChannelTasks ==
    /\ mainPc = "drained"
    /\ Len(stopped) = Len(Channels)
    /\ channel_tasks' = "cancelled"
    /\ mainPc' = "closing"
    /\ terminal' = IF terminal = "prompt" THEN "exited" ELSE terminal
    /\ handler' = [t \in Handlers |->
                      IF handler[t].channel = "terminal" /\ handler[t].pc # "done"
                        THEN [handler[t] EXCEPT !.cancel = TRUE] ELSE handler[t]]
    /\ UNCHANGED <<chunkVars, bufVars, parseVars, stopped, pools, storeVars, tx, ops, shutdown_event,
                   _user_locks, _active_tasks, drainSet>>

\* steps 4 and 5: close_pool(pool), checkpointer_pool.close(), store_pool.close()
ClosePool ==
    /\ mainPc = "closing"
    /\ Len(pools) < Len(Pools)
    /\ pools' = Append(pools, Pools[Len(pools) + 1])
    /\ mainPc' = IF Len(pools) + 1 = Len(Pools) THEN "stopped" ELSE mainPc
    /\ UNCHANGED <<chunkVars, bufVars, parseVars, stopped, channel_tasks, storeVars, tx, ops,
                   shutdown_event, _user_locks, _active_tasks, handler, terminal, drainSet>>

(***************************************************************************)
(* Spec: the orchestrator serving its adapters.                            *)
(***************************************************************************)
Init ==
    /\ \E db \in BootedDbs :
          /\ users = db.users
          /\ channel_identities = db.channel_identities
    /\ conversations = {}
    /\ conversations_id_seq = 0
    /\ uuid_seq = 0
    /\ tx = [c \in Clients |-> IdleTx]
    /\ ops = 0
    /\ shutdown_event = FALSE
    /\ _user_locks = <<>>
    /\ _active_tasks = {}
    /\ handler = <<>>
    /\ terminal = "prompt"
    /\ mainPc = "serving"
    /\ drainSet = {}
    /\ NoChunkCall
    /\ NoStreamBuffer
    /\ MainServing
    /\ NoParseCall

Next ==
    \/ \E s \in Senders : \E text \in Texts : HandleMessage(s.channel, s.channel_uid, text)
    \/ \E m \in 1..MaxMsgs : LockAcquired(m)
    \/ \E m \in 1..MaxMsgs : RunCommand(m)
    \/ \E m \in 1..MaxMsgs : ChatBegin(m)
    \/ \E m \in 1..MaxMsgs : \E frag \in Fragments : StreamNext(m, frag)
    \/ \E m \in 1..MaxMsgs : StreamEnd(m)
    \/ \E m \in 1..MaxMsgs : StreamRaise(m)
    \/ \E m \in 1..MaxMsgs : \E ok \in BOOLEAN : TypingSend(m, ok)
    \/ \E m \in 1..MaxMsgs : TypingExit(m)
    \/ \E m \in 1..MaxMsgs : Flush(m)
    \/ \E m \in 1..MaxMsgs : FlushReturn(m)
    \/ \E m \in 1..MaxMsgs : DeliverCancel(m)
    \/ Signal
    \/ TerminalEOF
    \/ BeginDrain
    \/ DrainComplete
    \/ DrainTimeout

Spec == Init /\ [][Next]_vars

(***************************************************************************)
(* SpecShutdown: chat turns of one user on both adapters, and main()       *)
(* through its whole shutdown sequence.                                    *)
(***************************************************************************)
ChatText == <<"h", "i">>

InitShutdown ==
    /\ users = bootstrap_from_config(EmptyDb, LinksBoth).users
    /\ channel_identities = bootstrap_from_config(EmptyDb, LinksBoth).channel_identities
    /\ conversations = {}
    /\ conversations_id_seq = 0
    /\ uuid_seq = 0
    /\ tx = [c \in Clients |-> IdleTx]
    /\ ops = 0
    /\ shutdown_event = FALSE
    /\ _user_locks = <<>>
    /\ _active_tasks = {}
    /\ handler = <<>>
    /\ terminal = "prompt"
    /\ mainPc = "serving"
    /\ drainSet = {}
    /\ NoChunkCall
    /\ NoStreamBuffer
    /\ MainServing
    /\ NoParseCall

NextShutdown ==
    \/ \E s \in Senders : HandleMessage(s.channel, s.channel_uid, ChatText)
    \/ \E m \in 1..MaxMsgs : LockAcquired(m)
    \/ \E m \in 1..MaxMsgs : ChatBegin(m)
    \/ \E m \in 1..MaxMsgs : \E frag \in Fragments : StreamNext(m, frag)
    \/ \E m \in 1..MaxMsgs : StreamEnd(m)
    \/ \E m \in 1..MaxMsgs : StreamRaise(m)
    \/ \E m \in 1..MaxMsgs : \E ok \in BOOLEAN : TypingSend(m, ok)
    \/ \E m \in 1..MaxMsgs : TypingExit(m)
    \/ \E m \in 1..MaxMsgs : Flush(m)
    \/ \E m \in 1..MaxMsgs : FlushReturn(m)
    \/ \E m \in 1..MaxMsgs : DeliverCancel(m)
    \/ Signal
    \/ TerminalEOF
    \/ BeginDrain
    \/ DrainComplete
    \/ DrainTimeout
    \/ \E ok \in BOOLEAN : StopChannel(ok)
    \/ CancelChannelTasks
    \/ ClosePool

SpecShutdown == InitShutdown /\ [][NextShutdown]_vars

(***************************************************************************)
(* SpecCmd: the command path of the orchestrator over conversations kept   *)
(* from earlier sessions.                                                  *)
(***************************************************************************)
\* a conversations table of the LinksTwo database: alice (user 1) has
\* conversation 6 (inactive) and conversation 7 (active), bob (user 2) has
\* conversation 8 (active)
StoredConversations ==
    { [NewRow(6, 1, 1, DefaultModel, DefaultSystemPrompt) EXCEPT !.is_active = FALSE],
      NewRow(7, 1, 2, DefaultModel, DefaultSystemPrompt),
      NewRow(8, 2, 3, DefaultModel, DefaultSystemPrompt) }

\* "/switch 1", "/title My trip", "/new"
CmdTexts == { <<"/", "s", "w", "i", "t", "c", "h", " ", "1">>,
              <<"/", "t", "i", "t", "l", "e", " ", "M", "y", " ", "t", "r", "i", "p">>,
              <<"/", "n", "e", "w">> }

InitCmd ==
    /\ users = bootstrap_from_config(EmptyDb, LinksTwo).users
    /\ channel_identities = bootstrap_from_config(EmptyDb, LinksTwo).channel_identities
    /\ \/ /\ conversations = {}
          /\ conversations_id_seq = 0
          /\ uuid_seq = 0
       \/ /\ conversations = StoredConversations
          /\ conversations_id_seq = 8
          /\ uuid_seq = 3
    /\ tx = [c \in Clients |-> IdleTx]
    /\ ops = 0
    /\ shutdown_event = FALSE
    /\ _user_locks = <<>>
    /\ _active_tasks = {}
    /\ handler = <<>>
    /\ terminal = "prompt"
    /\ mainPc = "serving"
    /\ drainSet = {}
    /\ NoChunkCall
    /\ NoStreamBuffer
    /\ MainServing
    /\ NoParseCall

NextCmd ==
    \/ \E s \in Senders : \E text \in CmdTexts : HandleMessage(s.channel, s.channel_uid, text)
    \/ \E m \in 1..MaxMsgs : LockAcquired(m)
    \/ \E m \in 1..MaxMsgs : RunCommand(m)

SpecCmd == InitCmd /\ [][NextCmd]_vars

(***************************************************************************)
(* chunk_markdown (channels/telegram.py).  Texts are sequences of          *)
(* characters.  ChunkTrace runs the loop and keeps, next to each chunk's   *)
(* text, what the loop did for it: `closed` (a fence was appended),        *)
(* `reopened` (it begins with the re-opening fence) and `lines` (the       *)
(* lines of the input appended to it).                                     *)
(***************************************************************************)
Newline == "\n"

\* the grave accent character (a string cannot hold it literally)
Backtick == "GRAVE"

\* the fence marker: three grave accents
Fence == <<Backtick, Backtick, Backtick>>

\* text.split("\n")
SplitLines(t) ==
    LET nl == {i \in 1..Len(t) : t[i] = Newline}
        n == Cardinality(nl)
        pos(k) == CHOOSE i \in nl : Cardinality({j \in nl : j < i}) = k - 1
        first(k) == IF k = 1 THEN 1 ELSE pos(k - 1) + 1
        last(k) == IF k = n + 1 THEN Len(t) ELSE pos(k) - 1
    IN [k \in 1..(n + 1) |-> SubSeq(t, first(k), last(k))]

\* "\n".join(lines)
RECURSIVE JoinLines(_)
JoinLines(lines) ==
    IF lines = <<>> THEN <<>>
    ELSE IF Len(lines) = 1 THEN lines[1]
    ELSE lines[1] \o <<Newline>> \o JoinLines(Tail(lines))

\* line.strip().startswith(fence marker)
IsFenceLine(line) ==
    LET stripped == Strip(line)
    IN Len(stripped) >= 3 /\ SubSeq(stripped, 1, 3) = Fence

\* len(text) <= size
Fits_strict(t, sz) == Len(t) < sz

Fits(t, sz) == Len(t) <= sz

\* current_len + line_len > size and current
NeedsFlush_never(current_len, line_len, sz, current) == FALSE

NeedsFlush_late(current_len, line_len, sz, current) ==
    current_len > sz + 12 /\ current # <<>>

NeedsFlush(current_len, line_len, sz, current) ==
    current_len + line_len > sz /\ current # <<>>

\* current.append(line)
AppendLine_skip_blank(current, line) == IF line = <<>> THEN current ELSE Append(current, line)

AppendLine(current, line) == Append(current, line)

\* the loop's variables before the first line
LoopStart == [chunks |-> <<>>, current |-> <<>>, current_len |-> 0,
              in_code_block |-> FALSE, code_fence |-> <<>>,
              reopened |-> FALSE, lines |-> <<>>]

\* one iteration of `for line in lines`
LoopStep(st, line, sz) ==
    LET line_len == Len(line) + 1
        fenced == IsFenceLine(line)
        in_code_block == IF fenced THEN ~st.in_code_block ELSE st.in_code_block
        code_fence == IF fenced THEN (IF ~st.in_code_block THEN Fence ELSE <<>>)
                      ELSE st.code_fence
        flush == NeedsFlush(st.current_len, line_len, sz, st.current)
        chunk_text_ == IF in_code_block
                         THEN JoinLines(st.current) \o <<Newline>> \o Fence
                         ELSE JoinLines(st.current)
        flushed == [text |-> chunk_text_, closed |-> in_code_block,
                    reopened |-> st.reopened, lines |-> st.lines]
        current == IF ~flush THEN st.current
                   ELSE IF in_code_block THEN <<code_fence>> ELSE <<>>
        current_len == IF ~flush THEN st.current_len
                       ELSE IF in_code_block THEN Len(code_fence) + 1 ELSE 0
    IN [chunks |-> IF flush THEN Append(st.chunks, flushed) ELSE st.chunks,
        current |-> AppendLine(current, line),
        current_len |-> current_len + line_len,
        in_code_block |-> in_code_block,
        code_fence |-> code_fence,
        reopened |-> IF flush THEN in_code_block ELSE st.reopened,
        lines |-> IF flush THEN <<line>> ELSE Append(st.lines, line)]

RECURSIVE Loop(_, _, _)
Loop(st, lines, sz) ==
    IF lines = <<>> THEN st ELSE Loop(LoopStep(st, Head(lines), sz), Tail(lines), sz)

ChunkTrace(t, sz) ==
    IF Fits(t, sz)
      THEN <<[text |-> t, closed |-> FALSE, reopened |-> FALSE, lines |-> SplitLines(t)]>>
      ELSE LET st == Loop(LoopStart, SplitLines(t), sz)
           IN IF st.current # <<>>
                THEN Append(st.chunks, [text |-> JoinLines(st.current), closed |-> FALSE,
                                        reopened |-> st.reopened, lines |-> st.lines])
                ELSE st.chunks

chunk_markdown(t, sz) ==
    LET tr == ChunkTrace(t, sz) IN [i \in 1..Len(tr) |-> tr[i].text]

(***************************************************************************)
(* SpecChunk: chunk_markdown called on every text of up to MaxLines lines  *)
(* with every size up to MaxSize.                                          *)
(***************************************************************************)
\* the lines a text is made of: "", "a", "aaaaa", a fence, a fence followed
\* by "p", and an indented fence
LineChoices == { <<>>, <<"a">>, <<"a", "a", "a", "a", "a">>, Fence,
                 Fence \o <<"p">>, <<" ">> \o Fence }

RECURSIVE LineSeqs(_)
LineSeqs(n) ==
    IF n = 0 THEN {<<>>}
    ELSE LineSeqs(n - 1) \cup
         {Append(ls, l) : ls \in {x \in LineSeqs(n - 1) : Len(x) = n - 1}, l \in LineChoices}

ChunkInputs == {JoinLines(ls) : ls \in LineSeqs(MaxLines)}

InitChunk ==
    /\ chunk_text \in ChunkInputs
    /\ chunk_size \in 0..MaxSize
    /\ chunks = <<>>
    /\ chunkPc = "call"
    /\ NoStreamBuffer
    /\ MainServing
    /\ NoParseCall
    /\ users = {}
    /\ channel_identities = {}
    /\ conversations = {}
    /\ conversations_id_seq = 0
    /\ uuid_seq = 0
    /\ tx = [c \in Clients |-> IdleTx]
    /\ ops = 0
    /\ shutdown_event = FALSE
    /\ _user_locks = <<>>
    /\ _active_tasks = {}
    /\ handler = <<>>
    /\ terminal = "prompt"
    /\ mainPc = "serving"
    /\ drainSet = {}

ChunkCall ==
    /\ chunkPc = "call"
    /\ chunks' = ChunkTrace(chunk_text, chunk_size)
    /\ chunkPc' = "returned"
    /\ UNCHANGED <<chunk_text, chunk_size, bufVars, mainVars, parseVars, storeVars, tx, ops, orchVars>>

NextChunk == ChunkCall

SpecChunk == InitChunk /\ [][NextChunk]_vars

(***************************************************************************)
(* TelegramStreamBuffer (channels/telegram.py): tokens accumulate in       *)
(* _buffer, a debounced task renders the partial text, finalize delivers   *)
(* the final text.  Every call on the Bot API is appended to bot.          *)
(***************************************************************************)
MAX_TELEGRAM_LENGTH == 4096

CHUNK_SIZE == 3500

\* a call on the Bot API: which method of the buffer made it, which Bot
\* method it is, with which text
Call(by, method, t) == [by |-> by, method |-> method, text |-> t]

\* aiogram Message returned by send_message
Message == <<"Message">>

\* text[:MAX_TELEGRAM_LENGTH]
Truncated(t) ==
    IF Len(t) <= MAX_TELEGRAM_LENGTH THEN t ELSE SubSeq(t, 1, MAX_TELEGRAM_LENGTH)

\* the tokens of a stream: a word, a line of 1800 characters with its
\* newline, a run of 1900 characters without a newline
Tokens == { <<"H", "i">>,
            [i \in 1..1800 |-> IF i = 1800 THEN Newline ELSE "a"],
            [i \in 1..1900 |-> "b"] }

\* the chunks finalize delivers
FinalChunks(t) == chunk_markdown(t, CHUNK_SIZE)

\* the platform's answer to a request
Result(ok) == IF ok THEN "accepted" ELSE "rejected"

\* the chat after the platform carried out call c.  The partial message is
\* the one _do_edit's send_message created: edit_text and delete are calls
\* on self._message.
Applied(ch, c) ==
    CASE c.method = "send_message" -> Append(ch, [by |-> c.by, text |-> c.text])
      [] c.method = "edit_text" ->
            [i \in 1..Len(ch) |->
                IF ch[i].by = "_do_edit" THEN [ch[i] EXCEPT !.text = c.text] ELSE ch[i]]
      [] OTHER -> SelectSeq(ch, LAMBDA msg : msg.by # "_do_edit")

\* the chat after the accepted ones of a run of calls
RECURSIVE AppliedAll(_, _, _)
AppliedAll(ch, calls, results) ==
    IF calls = <<>> THEN ch
    ELSE AppliedAll(IF Head(results) = "accepted" THEN Applied(ch, Head(calls)) ELSE ch,
                    Tail(calls), Tail(results))

InitBuffer ==
    /\ _buffer = <<>>
    /\ _message = None
    /\ _last_edit_len = 0
    /\ _edit_task = "None"
    /\ bot = <<>>
    /\ bot_result = <<>>
    /\ chat = <<>>
    /\ bufPc = "open"
    /\ added = 0
    /\ pending_renders = 0
    /\ MainServing
    /\ NoParseCall
    /\ NoChunkCall
    /\ users = {}
    /\ channel_identities = {}
    /\ conversations = {}
    /\ conversations_id_seq = 0
    /\ uuid_seq = 0
    /\ tx = [c \in Clients |-> IdleTx]
    /\ ops = 0
    /\ shutdown_event = FALSE
    /\ _user_locks = <<>>
    /\ _active_tasks = {}
    /\ handler = <<>>
    /\ terminal = "prompt"
    /\ mainPc = "serving"
    /\ drainSet = {}

\* `self._edit_task is None or self._edit_task.done()`
ShouldSchedule_always(task) == TRUE

ShouldSchedule(task) == task \in {"None", "done", "cancelled"}

\* add_token: under _lock, which _do_edit holds while its call is in flight
add_token(token) ==
    /\ bufPc = "open"
    /\ _edit_task # "calling"
    /\ added < MaxTokens
    /\ added' = added + 1
    /\ _buffer' = _buffer \o token
    /\ IF ShouldSchedule(_edit_task)
         THEN /\ _edit_task' = "sleeping"
              /\ pending_renders' = pending_renders + 1
         ELSE UNCHANGED <<_edit_task, pending_renders>>
    /\ UNCHANGED <<_message, _last_edit_len, bot, bot_result, chat, bufPc, chunkVars, mainVars,
                   parseVars, storeVars, tx, ops, orchVars>>

\* _schedule_edit after its sleep: _do_edit up to the Bot call
_do_edit ==
    /\ _edit_task = "sleeping"
    /\ IF _buffer = <<>> \/ Len(_buffer) = _last_edit_len
         THEN /\ _edit_task' = "done"
              /\ pending_renders' = pending_renders - 1
              /\ UNCHANGED <<bot, bot_result>>
         ELSE /\ _edit_task' = "calling"
              /\ pending_renders' = pending_renders
              /\ bot' = Append(bot, Call("_do_edit",
                                         IF _message = None THEN "send_message" ELSE "edit_text",
                                         Truncated(_buffer)))
              /\ bot_result' = Append(bot_result, "in_flight")
    /\ UNCHANGED <<_buffer, _message, _last_edit_len, chat, bufPc, added, chunkVars, mainVars,
                   parseVars, storeVars, tx, ops, orchVars>>

\* _do_edit from the Bot call's return: the platform accepted or rejected it
EditReturn(ok) ==
    /\ _edit_task = "calling"
    /\ _edit_task' = "done"
    /\ pending_renders' = pending_renders - 1
    /\ bot_result' = [bot_result EXCEPT ![Len(bot)] = Result(ok)]
    /\ IF ok
         THEN /\ _message' = Message
              /\ _last_edit_len' = Len(_buffer)
              /\ chat' = Applied(chat, bot[Len(bot)])
         ELSE UNCHANGED <<_message, _last_edit_len, chat>>
    /\ UNCHANGED <<_buffer, bot, bufPc, added, chunkVars, mainVars, parseVars, storeVars, tx,
                   ops, orchVars>>

\* the sends of finalize: the chunks in order, up to the first rejected one
Sends(cs, n) == [i \in 1..n |-> Call("finalize", "send_message", cs[i])]

\* finalize, lines 120-125: a task that is not done is cancelled and awaited
CancelEdit_skip(task) == task

CancelEdit(task) == IF task \in {"sleeping", "calling"} THEN "cancelled" ELSE task

\* the request of a render that finalize cancelled while it was in flight:
\* the platform had carried it out, or it never did
Abandoned(task, ch, applied) ==
    IF task = "calling" /\ CancelEdit(task) = "cancelled" /\ applied
      THEN Applied(ch, bot[Len(bot)]) ELSE ch

AbandonedResult(task, results) ==
    IF task = "calling" /\ CancelEdit(task) = "cancelled"
      THEN [results EXCEPT ![Len(bot)] = "cancelled"] ELSE results

\* finalize, lines 133-147: the calls it makes and the platform's answers.
\* The delete has its own try / except; the first rejected edit or send
\* leaves the outer try block.
FinalizeOutcomes(msg, cs) ==
    IF msg # None /\ Len(cs) = 1
      THEN { [calls |-> <<Call("finalize", "edit_text", cs[1])>>,
              results |-> <<Result(ok)>>] : ok \in BOOLEAN }
      ELSE { [calls |-> (IF msg # None THEN <<Call("finalize", "delete", <<>>)>> ELSE <<>>)
                        \o Sends(cs, o.n),
              results |-> (IF msg # None THEN <<Result(o.del_ok)>> ELSE <<>>)
                          \o [i \in 1..o.n |-> Result(i < o.n \/ o.last_ok)]] :
             o \in { x \in [n : 1..Len(cs), del_ok : BOOLEAN, last_ok : BOOLEAN] :
                        x.n < Len(cs) => ~x.last_ok } }

\* finalize
finalize ==
    /\ bufPc = "open"
    /\ bufPc' = "finalized"
    /\ _edit_task' = CancelEdit(_edit_task)
    /\ pending_renders' = IF _edit_task' # _edit_task THEN pending_renders - 1
                          ELSE pending_renders
    /\ \E applied \in BOOLEAN :
          IF _buffer = <<>>
            THEN /\ bot' = bot
                 /\ bot_result' = AbandonedResult(_edit_task, bot_result)
                 /\ chat' = Abandoned(_edit_task, chat, applied)
            ELSE \E out \in FinalizeOutcomes(_message, FinalChunks(_buffer)) :
                    /\ bot' = bot \o out.calls
                    /\ bot_result' = AbandonedResult(_edit_task, bot_result) \o out.results
                    /\ chat' = AppliedAll(Abandoned(_edit_task, chat, applied),
                                          out.calls, out.results)
    /\ UNCHANGED <<_buffer, _message, _last_edit_len, added, chunkVars, mainVars, parseVars,
                   storeVars, tx, ops, orchVars>>

NextBuffer ==
    \/ \E token \in Tokens : add_token(token)
    \/ _do_edit
    \/ \E ok \in BOOLEAN : EditReturn(ok)
    \/ finalize

SpecBuffer == InitBuffer /\ [][NextBuffer]_vars

(***************************************************************************)
(* SpecDelivery: one Telegram chat over successive turns.  flush pops the  *)
(* chat's buffer before finalize; the next chat turn's first send_token    *)
(* creates a new one; a command turn in between replies through send_text. *)
(***************************************************************************)
\* a short reply, and a listing of three lines of 1800 characters
ReplyTexts == { <<"o", "k">>,
                [i \in 1..5400 |-> IF i % 1800 = 0 THEN Newline ELSE "a"] }

\* TelegramChannel.send_token when the chat has no buffer: a new
\* TelegramStreamBuffer, then its add_token
send_token(token) ==
    /\ bufPc = "finalized"
    /\ added < MaxTokens
    /\ added' = added + 1
    /\ bufPc' = "open"
    /\ _buffer' = token
    /\ _message' = None
    /\ _last_edit_len' = 0
    /\ _edit_task' = "sleeping"
    /\ pending_renders' = pending_renders + 1
    /\ bot' = <<>>
    /\ bot_result' = <<>>
    /\ chat' = <<>>
    /\ UNCHANGED <<chunkVars, mainVars, parseVars, storeVars, tx, ops, orchVars>>

\* chunk_markdown(text) of send_text, for each reply
SendTextChunks == [t \in ReplyTexts |-> chunk_markdown(t, CHUNK_SIZE)]

\* the calls send_text made
SendTextCalls == SelectSeq(bot, LAMBDA c : c.by = "send_text")

\* TelegramChannel.send_text: every chunk is sent inside its own try / except
send_text(t) ==
    /\ bufPc = "finalized"
    /\ SendTextCalls = <<>>
    /\ LET cs == SendTextChunks[t]
           calls == [i \in 1..Len(cs) |-> Call("send_text", "send_message", cs[i])]
       IN \E oks \in [1..Len(cs) -> BOOLEAN] :
             LET results == [i \in 1..Len(cs) |-> Result(oks[i])]
             IN /\ bot' = bot \o calls
                /\ bot_result' = bot_result \o results
                /\ chat' = AppliedAll(chat, calls, results)
    /\ UNCHANGED <<_buffer, _message, _last_edit_len, _edit_task, bufPc, added,
                   pending_renders, chunkVars, mainVars, parseVars, storeVars, tx, ops,
                   orchVars>>

NextDelivery ==
    \/ \E token \in Tokens : add_token(token)
    \/ _do_edit
    \/ \E ok \in BOOLEAN : EditReturn(ok)
    \/ finalize
    \/ \E token \in Tokens : send_token(token)
    \/ \E t \in ReplyTexts : send_text(t)

SpecDelivery == InitBuffer /\ [][NextDelivery]_vars

(***************************************************************************)
(* SpecTurns: two messages of one Telegram user, a chat text or /new, with *)
(* the shutdown signal and the drain.  The event loop runs every task that *)
(* is ready and every stream ends or raises: each handler's steps are      *)
(* weakly fair.                                                            *)
(***************************************************************************)
TurnTexts == {ChatText, CmdNew}

\* the steps of handler m
TurnStep(m) ==
    \/ LockAcquired(m)
    \/ RunCommand(m)
    \/ ChatBegin(m)
    \/ StreamEnd(m)
    \/ StreamRaise(m)
    \/ TypingExit(m)
    \/ Flush(m)
    \/ FlushReturn(m)
    \/ DeliverCancel(m)

NextTurns ==
    \/ \E text \in TurnTexts : HandleMessage("telegram", "1", text)
    \/ \E m \in 1..MaxMsgs : TurnStep(m)
    \/ Signal
    \/ BeginDrain
    \/ DrainComplete
    \/ DrainTimeout

SpecTurns == InitShutdown /\ [][NextTurns]_vars /\ \A m \in 1..MaxMsgs : WF_vars(TurnStep(m))

(***************************************************************************)
(* Claims about the orchestrator (checked under Spec).                     *)
(***************************************************************************)
\* the handler a step adds, when it adds one
Arrived == Len(handler') = Len(handler) + 1

Newest == handler'[Len(handler')]

Linked(channel, channel_uid) ==
    \E ci \in channel_identities : ci.channel = channel /\ ci.channel_uid = channel_uid

KnownCommands == {CmdNew, CmdHistory, CmdSwitch, CmdTitle, CmdModel, CmdSystem, CmdHelp}

\* C1: at every moment at most one handler per resolved user is between lock
\* acquisition and release, and a handler waiting for its user's lock has begun
\* no command or chat processing.
C1_MutualExclusion ==
    /\ \A m1, m2 \in Handlers :
          m1 # m2 /\ InSection(m1) /\ InSection(m2)
              => handler[m1].user.id # handler[m2].user.id
    /\ \A m \in Handlers :
          handler[m].pc = "wait_lock"
              => /\ m \notin _active_tasks
                 /\ handler[m].sent = <<>>
                 /\ handler[m].tokens = <<>>
                 /\ handler[m].typing = "none"
                 /\ handler[m].created = "none"

\* a second message of a user waits while that user's turn is streaming
C1_Witness ==
    \E m1, m2 \in Handlers :
        /\ handler[m1].pc = "stream"
        /\ handler[m2].pc = "wait_lock"
        /\ handler[m1].user.id = handler[m2].user.id

\* C4: a handler that waits for a lock waits only behind a handler of its own
\* user: the holder of the lock it queues on is never a different user.
C4_IndependentProgress ==
    \A m1, m2 \in Handlers :
        /\ handler[m1].pc = "wait_lock"
        /\ InSection(m2)
        /\ handler[m2].user.name = handler[m1].user.name
        => handler[m1].user.id = handler[m2].user.id

\* C5: a message arriving once shutdown_event is set gets the shutdown notice
\* and nothing else: no resolution, no lock created, taken or queued on, no
\* processing, no entry in _active_tasks, no change of the store.
C5_ShutdownGate ==
    [][(shutdown_event /\ Arrived)
          => /\ Newest.pc = "done"
             /\ Newest.sent = <<ShutdownNotice>>
             /\ Newest.user = NoUser
             /\ Newest.typing = "none"
             /\ Newest.exc = "none"
             /\ _user_locks' = _user_locks
             /\ _active_tasks' = _active_tasks
             /\ storeVars' = storeVars]_vars

\* a message of a linked sender was turned away by the gate
C5_Witness ==
    \E m \in Handlers :
        /\ handler[m].gate
        /\ handler[m].sent = <<ShutdownNotice>>
        /\ Linked(handler[m].channel, handler[m].channel_uid)

\* C6: a chat turn that started streaming calls flush exactly once, after
\* typing_task.cancel(), whatever its outcome; without a cancellation of the
\* turn the typing task has ended when flush is called.
C6_TurnCleanup ==
    \A m \in Handlers :
        LET h == handler[m]
        IN /\ h.flushes <= 1
           /\ h.typing = "none" => h.flushes = 0
           /\ h.flushes = 1 => h.typing \in {"cancelling", "done"}
           /\ h.flushes = 1 /\ ~h.cancelled => h.typing = "done"
           /\ h.typing # "none" /\ h.pc = "done" => h.flushes = 1

\* finished turns of each outcome: a completed stream or a raising one with a
\* rejected typing send, and a cancelled one
C6_Witness ==
    \E m1, m2 \in Handlers :
        /\ handler[m1].pc = "done" /\ handler[m1].raised /\ handler[m1].typing_failed
        /\ handler[m1].flushes = 1
        /\ handler[m2].pc = "done" /\ handler[m2].cancelled /\ handler[m2].nfrag > 0
        /\ handler[m2].flushes = 1

\* C7: a raising token stream sends the error notice once and is not
\* propagated: the turn cleans up, handle_message returns, and the lock is
\* released.
C7_StreamFailure ==
    \A m \in Handlers :
        LET h == handler[m]
        IN h.raised
             => /\ h.sent = <<ErrorNotice>>
                /\ h.exc \in {"none", "CancelledError"}
                /\ h.pending \in {"none", "CancelledError"}
                /\ h.pc \in {"await_typing", "flushing", "done"}
                /\ h.pc = "done" /\ ~h.cancelled
                     => /\ h.exc = "none"
                        /\ h.flushes = 1
                        /\ m \notin _active_tasks
                        /\ _user_locks[h.user.name].locked
                             => \E m2 \in Handlers \ {m} :
                                   InSection(m2) /\ handler[m2].user.name = h.user.name

\* after a turn whose stream raised, a later message of the same user was
\* streamed and finished
C7_Witness ==
    \E m1, m2 \in Handlers :
        /\ m1 < m2
        /\ handler[m1].user.id = handler[m2].user.id
        /\ handler[m1].pc = "done" /\ handler[m1].raised /\ handler[m1].exc = "none"
        /\ handler[m2].pc = "done" /\ ~handler[m2].raised /\ handler[m2].tokens # <<>>
        /\ handler[m2].flushes = 1

\* C8: a store failure inside a turn leaves the adapter that delivered the
\* message accepting messages.
C8_FailureContained ==
    \A m \in Handlers :
        handler[m].exc = "StoreError" /\ handler[m].channel = "terminal"
            => terminal # "crashed"

CommandEnds(m) ==
    /\ m \in Handlers
    /\ handler[m].pc = "cmd"
    /\ handler'[m].pc = "done"
    /\ handler'[m].exc # "StoreError"

\* the /switch argument names conversation r: its identifier, or a prefix of
\* its thread id
NamedBy(arg, r) ==
    \/ arg = ToText(r.id)
    \/ Len(arg) <= Len(ToText(r.thread_id))
          /\ SubSeq(ToText(r.thread_id), 1, Len(arg)) = arg

\* C13: handling "/switch A" for a user with A inactive and B active ends
\* with A active, B inactive, a confirmation naming A, and every other user's
\* conversations as they were.
C13_SwitchEndToEnd ==
    [][\A m \in 1..MaxMsgs : \A A, B \in conversations :
          (/\ CommandEnds(m)
           /\ handler[m].command = CmdSwitch
           /\ A.user_id = handler[m].user.id /\ ~A.is_active
           /\ B.user_id = handler[m].user.id /\ B.is_active
           /\ NamedBy(Strip(handler[m].args), A))
              => /\ [A EXCEPT !.is_active = TRUE] \in conversations'
                 /\ [B EXCEPT !.is_active = FALSE] \in conversations'
                 /\ handler'[m].sent = <<Reply("Switched to [{}] {}",
                                              Short(A.thread_id) \o OrUntitled(A.title))>>
                 /\ {r \in conversations' : r.user_id # A.user_id}
                       = {r \in conversations : r.user_id # A.user_id}]_vars

\* C14: handling "/title <text>" sets the title of the user's active
\* conversation, changes no other conversation and replies "Title set:
\* <text>"; with no active conversation it replies "No active conversation."
\* and changes nothing.
C14_TitleEndToEnd ==
    [][\A m \in 1..MaxMsgs :
          (/\ CommandEnds(m)
           /\ handler[m].command = CmdTitle
           /\ Strip(handler[m].args) # <<>>)
              => LET act == get_active_conversation(conversations, handler[m].user.id)
                     text == Strip(handler[m].args)
                 IN IF act # NoConv
                      THEN /\ conversations' = (conversations \ {act})
                                                   \cup {[act EXCEPT !.title = text]}
                           /\ handler'[m].sent = <<Reply("Title set: {}", text)>>
                      ELSE /\ conversations' = conversations
                           /\ handler'[m].sent
                                 = <<Reply("No active conversation.", <<>>)>>]_vars

(***************************************************************************)
(* Claims about chunk_markdown (checked under SpecChunk).                  *)
(***************************************************************************)
\* chunk.count(fence marker): non-overlapping occurrences, left to right
RECURSIVE FenceCount(_)
FenceCount(t) ==
    IF Len(t) < 3 THEN 0
    ELSE IF SubSeq(t, 1, 3) = Fence THEN 1 + FenceCount(SubSeq(t, 4, Len(t)))
    ELSE FenceCount(Tail(t))

\* the lines of a chunk before any closing fence is appended
OwnLines(ch) == IF ch.reopened THEN <<Fence>> \o ch.lines ELSE ch.lines

\* the chunk holds an opening fence without its closing fence
Unmatched(ch) ==
    Cardinality({k \in 1..Len(OwnLines(ch)) : IsFenceLine(OwnLines(ch)[k])}) % 2 = 1

\* the lines of a chunk's text without the injected fence lines
WithoutInjected(ch) ==
    LET ls == SplitLines(ch.text)
        from == IF ch.reopened THEN 2 ELSE 1
        to == IF ch.closed THEN Len(ls) - 1 ELSE Len(ls)
    IN SubSeq(ls, from, to)

RECURSIVE Reassembled(_)
Reassembled(chs) ==
    IF chs = <<>> THEN <<>> ELSE WithoutInjected(Head(chs)) \o Reassembled(Tail(chs))

\* the overhead test_chunk_size_respected allows
FenceOverhead == 10

\* C15: a chunk with an unmatched opening fence gets a closing fence and the
\* chunk after it begins with a re-opening fence; every chunk but the last
\* holds an even number of fence markers; no fence is appended to a chunk
\* without an open block.
C15_FenceSafety ==
    chunkPc = "returned" =>
        \A i \in 1..(Len(chunks) - 1) :
            /\ Unmatched(chunks[i]) => chunks[i].closed /\ chunks[i + 1].reopened
            /\ chunks[i].closed => Unmatched(chunks[i])
            /\ FenceCount(chunks[i].text) % 2 = 0

\* C16: the chunks' lines, without the injected closing and re-opening fence
\* lines, are the lines of the text, in order, each once.
C16_RoundTrip ==
    chunkPc = "returned" =>
        /\ Reassembled(chunks) = SplitLines(chunk_text)
        /\ \A i \in 1..Len(chunks) :
              LET ls == SplitLines(chunks[i].text)
              IN /\ chunks[i].closed => ls[Len(ls)] = Fence
                 /\ chunks[i].reopened => ls[1] = Fence

\* a text with a blank line was split into three chunks, one of them closed
\* and re-opened
C16_Witness ==
    /\ chunkPc = "returned"
    /\ Len(chunks) >= 3
    /\ \E i \in 1..Len(chunks) : chunks[i].closed
    /\ \E k \in 1..Len(SplitLines(chunk_text)) : SplitLines(chunk_text)[k] = <<>>

\* C17 as stated: every chunk but the last is at most size + 10 long.
C17_SizeBound ==
    chunkPc = "returned" =>
        \A i \in 1..(Len(chunks) - 1) : Len(chunks[i].text) <= chunk_size + FenceOverhead

\* C17 amended: every chunk but the last that holds no line longer than size
\* is at most size + 10 long.
C17_SizeBoundAmended ==
    chunkPc = "returned" =>
        \A i \in 1..(Len(chunks) - 1) :
            (\A k \in 1..Len(chunks[i].lines) : Len(chunks[i].lines[k]) <= chunk_size)
                => Len(chunks[i].text) <= chunk_size + FenceOverhead

\* a chunk of lines within the size, closed by a fence, is longer than size
C17_Witness ==
    /\ chunkPc = "returned"
    /\ \E i \in 1..(Len(chunks) - 1) :
          /\ chunks[i].lines # <<>>
          /\ \A k \in 1..Len(chunks[i].lines) : Len(chunks[i].lines[k]) <= chunk_size
          /\ chunks[i].closed
          /\ Len(chunks[i].text) > chunk_size

\* C18: a line longer than size is in a chunk that holds no other line of the
\* text, and is there whole.
C18_LongLine ==
    chunkPc = "returned" =>
        \A i \in 1..Len(chunks) :
            (\E k \in 1..Len(chunks[i].lines) : Len(chunks[i].lines[k]) > chunk_size)
                => /\ Len(chunks[i].lines) = 1
                   /\ WithoutInjected(chunks[i]) = chunks[i].lines

\* a long line in the middle of the text, inside a code block, has a chunk of
\* its own between two others
C18_Witness ==
    /\ chunkPc = "returned"
    /\ \E i \in 2..(Len(chunks) - 1) :
          /\ Len(chunks[i].lines) = 1
          /\ Len(chunks[i].lines[1]) > chunk_size
          /\ chunks[i].reopened /\ chunks[i].closed

\* C19: a text no longer than size comes back as one chunk equal to it.
C19_FittingText ==
    chunkPc = "returned" /\ Len(chunk_text) <= chunk_size
        => chunk_markdown(chunk_text, chunk_size) = <<chunk_text>>
           /\ Len(chunks) = 1 /\ chunks[1].text = chunk_text
           /\ ~chunks[1].closed /\ ~chunks[1].reopened

\* a text of two lines exactly size long, and the empty text, came back whole
C19_Witness ==
    /\ chunkPc = "returned"
    /\ Len(chunk_text) = chunk_size
    /\ Len(SplitLines(chunk_text)) >= 2
    /\ FenceCount(chunk_text) = 2
    /\ chunks[1].text = chunk_text

(***************************************************************************)
(* Claims about TelegramStreamBuffer (checked under SpecBuffer).           *)
(***************************************************************************)
\* the Bot calls finalize made
FinalizeCalls == SelectSeq(bot, LAMBDA c : c.by = "finalize")

\* finalize ran on a non-empty final text within the single-message limit
FinalizedFitting ==
    /\ bufPc = "finalized"
    /\ _buffer # <<>>
    /\ Len(_buffer) <= MAX_TELEGRAM_LENGTH

\* C20: after finalize of a buffer whose non-empty final text is at most
\* max_message_length long, finalize made exactly one Bot call: an edit of
\* the partial message to the full text when a partial message exists,
\* otherwise one send of the full text.
C20_FinalizeFits ==
    FinalizedFitting =>
        FinalizeCalls = <<Call("finalize",
                               IF _message # None THEN "edit_text" ELSE "send_message",
                               _buffer)>>

\* finalize ran on a fitting text of several lines that is longer than CHUNK_SIZE
C20_Witness ==
    /\ FinalizedFitting
    /\ _message # None
    /\ Len(_buffer) > CHUNK_SIZE
    /\ Len(SplitLines(_buffer)) > 1

\* finalize ran on a final text longer than the single-message limit
FinalizedOver ==
    /\ bufPc = "finalized"
    /\ Len(_buffer) > MAX_TELEGRAM_LENGTH

\* C21: after finalize of a buffer whose final text is longer than
\* max_message_length, the Bot calls finalize made are a delete of the
\* partial message when one exists, followed by sends of the chunk_markdown
\* chunks of the text in chunk order (up to a send the platform rejects);
\* finalize made no in-place edit.
C21_FinalizeTooLong ==
    FinalizedOver =>
        \E n \in 1..Len(FinalChunks(_buffer)) :
            FinalizeCalls = (IF _message # None
                               THEN <<Call("finalize", "delete", <<>>)>> ELSE <<>>)
                            \o Sends(FinalChunks(_buffer), n)

\* finalize ran on an over-long text that is a single line, with a partial
\* message present
C21_Witness ==
    /\ FinalizedOver
    /\ _message # None
    /\ Len(SplitLines(_buffer)) = 1

(***************************************************************************)
(* Claims about the shutdown sequence of main().                           *)
(***************************************************************************)
\* C22: wait_for_active_tasks waits for exactly the handlers that are inside
\* a per-user section when it is called, and when it returns (normally, in
\* both cases, with main going on) each of them has finished or has had
\* cancel() called on its task.
C22_ShutdownDrain ==
    [][ /\ (mainPc = "signalled" /\ mainPc' # "signalled")
            => drainSet' = {m \in Handlers : InSection(m)}
        /\ (mainPc = "draining" /\ mainPc' # "draining")
            => /\ mainPc' = "drained"
               /\ \A t \in drainSet' : handler'[t].pc = "done" \/ handler'[t].cancel ]_vars

\* the drain timed out with a handler still inside its section
C22_Witness ==
    /\ mainPc = "drained"
    /\ \E t \in drainSet : handler[t].cancel /\ InSection(t)

\* the first n elements of a sequence
Prefix(seq, n) == SubSeq(seq, 1, n)

\* C23: no adapter is stopped, no adapter task cancelled and no pool closed
\* before the drain has returned; the adapters are stopped in order, the
\* adapter tasks are cancelled only after stop() was called on every adapter
\* (whether or not a stop failed), and the pools are closed, in order, only
\* after the adapter tasks were cancelled.
C23_ShutdownOrder ==
    /\ mainPc \in {"serving", "signalled", "draining"} => MainServing
    /\ [i \in 1..Len(stopped) |-> stopped[i].name] = Prefix(Channels, Len(stopped))
    /\ channel_tasks = "cancelled" => Len(stopped) = Len(Channels)
    /\ pools = Prefix(Pools, Len(pools))
    /\ pools # <<>> => channel_tasks = "cancelled"
    /\ mainPc = "stopped" => pools = Pools

\* the whole sequence ran although stopping an adapter failed
C23_Witness ==
    /\ mainPc = "stopped"
    /\ \E i \in 1..Len(stopped) : ~stopped[i].ok
    /\ \E t \in drainSet : handler[t].cancelled

(***************************************************************************)
(* SpecParse: parse_slash_command called on every text of up to MaxChars   *)
(* characters over "/", " ", "a", "B", and on the texts of the tests.      *)
(***************************************************************************)
ParseAlphabet == {"/", " ", "a", "B"}

RECURSIVE CharSeqs(_)
CharSeqs(n) ==
    IF n = 0 THEN {<<>>}
    ELSE CharSeqs(n - 1) \cup
         {Append(t, c) : t \in {u \in CharSeqs(n - 1) : Len(u) = n - 1}, c \in ParseAlphabet}

\* "/Model  openai:gpt-4.1"
ModelTwoSpaces == <<"/", "M", "o", "d", "e", "l", " ", " ", "o", "p", "e", "n", "a", "i", ":",
                    "g", "p", "t", "-", "4", ".", "1">>

ParseInputs ==
    CharSeqs(MaxChars) \cup
    { ModelTwoSpaces,
      <<" ", " ", "/", "n", "e", "w">>,
      <<"h", "e", "l", "l", "o">>,
      <<"/", "H", "E", "L", "P">>,
      <<"/", "t", "i", "t", "l", "e", " ", "M", "y", " ", " ", "c", "o", "o", "l", "\t", "x">> }

InitParse ==
    /\ parse_text \in ParseInputs
    /\ parse_result = <<>>
    /\ parsePc = "call"
    /\ NoChunkCall
    /\ NoStreamBuffer
    /\ MainServing
    /\ users = {}
    /\ channel_identities = {}
    /\ conversations = {}
    /\ conversations_id_seq = 0
    /\ uuid_seq = 0
    /\ tx = [c \in Clients |-> IdleTx]
    /\ ops = 0
    /\ shutdown_event = FALSE
    /\ _user_locks = <<>>
    /\ _active_tasks = {}
    /\ handler = <<>>
    /\ terminal = "prompt"
    /\ mainPc = "serving"
    /\ drainSet = {}

ParseCall ==
    /\ parsePc = "call"
    /\ parse_result' = parse_slash_command(parse_text)
    /\ parsePc' = "returned"
    /\ UNCHANGED <<parse_text, chunkVars, bufVars, mainVars, storeVars, tx, ops, orchVars>>

NextParse == ParseCall

SpecParse == InitParse /\ [][NextParse]_vars

(***************************************************************************)
(* Claims about parse_slash_command (checked under SpecParse).             *)
(***************************************************************************)
\* the length of the first whitespace-delimited token of a trimmed text
FirstToken(t) ==
    CHOOSE n \in 0..Len(t) :
        /\ \A i \in 1..n : t[i] \notin Whitespace
        /\ n = Len(t) \/ t[n + 1] \in Whitespace

IsUpper(c) == \E k \in 1..Len(UpperCase) : UpperCase[k] = c

\* the same character, or the two cases of one letter
SameLetter(a, b) ==
    \/ a = b
    \/ \E k \in 1..Len(UpperCase) : {a, b} = {UpperCase[k], LowerCase[k]}

\* C24: the text is trimmed; when the trimmed text starts with "/", the
\* command is its first whitespace-delimited token lower-cased (the same
\* result for the token already lower-cased) and the argument is what
\* follows the token and the whitespace after it, empty exactly when nothing
\* follows; any other text, the empty and the all-whitespace text included,
\* gives absent.
C24_ParseGrammar ==
    parsePc = "returned" =>
        LET t == Strip(parse_text)
            n == FirstToken(t)
        IN IF t = <<>> \/ t[1] # "/"
             THEN parse_result = NoParse
             ELSE /\ parse_result # NoParse
                  /\ Len(parse_result.command) = n
                  /\ \A i \in 1..n : /\ SameLetter(parse_result.command[i], t[i])
                                      /\ ~IsUpper(parse_result.command[i])
                  /\ parse_result = parse_slash_command(parse_result.command
                                                        \o SubSeq(t, n + 1, Len(t)))
                  /\ \E k \in (n + 1)..(Len(t) + 1) :
                        /\ parse_result.args = SubSeq(t, k, Len(t))
                        /\ \A j \in (n + 1)..(k - 1) : t[j] \in Whitespace
                  /\ (parse_result.args = <<>>) <=> (n = Len(t))

\* a command token with an upper-case letter, surrounded by whitespace, with
\* an argument
C24_Witness ==
    /\ parsePc = "returned"
    /\ parse_text = <<" ", "/", "B", " ", "a">>
    /\ parse_result = [command |-> <<"/", "b">>, args |-> <<"a">>]

\* C25: the argument is the text after the command token and its one
\* separating whitespace character, unchanged: "/Model  openai:gpt-4.1"
\* gives ("/model", " openai:gpt-4.1").
C25_ArgsVerbatim ==
    parsePc = "returned" /\ parse_result # NoParse =>
        LET t == Strip(parse_text)
            n == FirstToken(t)
        IN /\ parse_result.args = SubSeq(t, n + 2, Len(t))
           /\ parse_text = ModelTwoSpaces =>
                 parse_result = [command |-> CmdModel,
                           args |-> SubSeq(ModelTwoSpaces, 8, Len(ModelTwoSpaces))]

\* parse_slash_command returned for "/Model  openai:gpt-4.1"
C25_Witness ==
    /\ parsePc = "returned"
    /\ parse_text = ModelTwoSpaces

(***************************************************************************)
(* Claims about leaving the per-user section and the typing side-loop.     *)
(***************************************************************************)
\* C26: a handler that leaves its section, however it leaves, is out of
\* _active_tasks and has released its user's lock in the same step; a locked
\* lock always has a handler inside its section and _active_tasks holds the
\* handlers inside a section only; and a handler waiting for a lock
\* eventually enters the section.
C26_UnconditionalRelease ==
    /\ [][ /\ \A m \in Handlers :
                 InSection(m) /\ handler'[m].pc = "done"
                     => /\ m \notin _active_tasks'
                        /\ ~_user_locks'[handler[m].user.name].locked
           /\ \A name \in DOMAIN _user_locks' :
                 _user_locks'[name].locked
                     => \E m \in 1..Len(handler') :
                           /\ handler'[m].pc \in InSectionPcs
                           /\ handler'[m].user.name = name
           /\ \A m \in _active_tasks' : handler'[m].pc \in InSectionPcs ]_vars
    /\ \A m \in 1..MaxMsgs :
          (m \in Handlers /\ handler[m].pc = "wait_lock")
              ~> (m \in Handlers /\ InSection(m))

\* a handler that waited for the lock is inside the section after the
\* handler ahead of it left by cancellation
C26_Witness ==
    \E m, k \in Handlers :
        /\ handler[k].pc = "done" /\ handler[k].exc = "CancelledError"
        /\ handler[m].user.name = handler[k].user.name
        /\ k < m /\ InSection(m)

\* C27: send_typing is called for a turn only while the turn is receiving
\* its stream, before the cleanup began; and whenever flush has been called
\* or the handler has finished, the turn's typing task, if one was created,
\* has ended.
C27_NoStrayTyping ==
    [][ /\ \A m \in Handlers :
              handler'[m].typing_sends > handler[m].typing_sends
                  => handler[m].pc = "stream" /\ handler'[m].pc = "stream"
        /\ \A m \in 1..Len(handler') :
              handler'[m].pc \in {"flushing", "done"}
                  => handler'[m].typing \in {"none", "done"} ]_vars

\* a turn that sent a typing indicator and was cancelled from outside has
\* called flush with its typing task ended
C27_Witness ==
    \E m \in Handlers :
        /\ handler[m].pc = "flushing"
        /\ handler[m].typing_sends > 0
        /\ handler[m].cancelled
        /\ handler[m].typing = "done"

C29_FinalizeCancels ==
    [][ /\ bufPc' = "finalized" =>
              /\ _edit_task' \notin {"sleeping", "calling"}
              /\ _buffer' # <<>> => /\ bot' # <<>>
                                    /\ bot'[Len(bot')].by = "finalize"
        /\ bufPc = "finalized" =>
              /\ bot' = bot
              /\ _message' = _message
              /\ _last_edit_len' = _last_edit_len ]_vars

\* finalize cancelled a render that was sleeping or executing
C29_Witness ==
    /\ bufPc = "finalized"
    /\ _edit_task = "cancelled"
    /\ _buffer # <<>>
    /\ \E i \in 1..Len(bot) : bot[i].by = "_do_edit"

(***************************************************************************)
(* SpecAgent: chat turns and /model, /system commands of one user whose    *)
(* conversations may have been kept from earlier sessions.                 *)
(***************************************************************************)
\* "openai:gpt-4.1" and "Answer in French.", written short
ModelX == <<"X">>

PromptP == <<"P">>

\* alice's conversations at start-up: none; one created under an earlier
\* configuration (another provider.model and provider.system_prompt) or
\* updated by update_conversation_model / _system_prompt; one whose
\* system_prompt column is NULL
KeptConversations ==
    { {},
      {NewRow(1, 1, 1, ModelX, PromptP)},
      {NewRow(1, 1, 1, ModelX, None)} }

\* "hi", "/model X", "/system P"
AgentTexts == { ChatText,
                <<"/", "m", "o", "d", "e", "l", " ">> \o ModelX,
                <<"/", "s", "y", "s", "t", "e", "m", " ">> \o PromptP }

InitAgent ==
    /\ users = bootstrap_from_config(EmptyDb, LinksBoth).users
    /\ channel_identities = bootstrap_from_config(EmptyDb, LinksBoth).channel_identities
    /\ \E tbl \in KeptConversations :
          /\ conversations = tbl
          /\ conversations_id_seq = Cardinality(tbl)
          /\ uuid_seq = Cardinality(tbl)
    /\ tx = [c \in Clients |-> IdleTx]
    /\ ops = 0
    /\ shutdown_event = FALSE
    /\ _user_locks = <<>>
    /\ _active_tasks = {}
    /\ handler = <<>>
    /\ terminal = "prompt"
    /\ mainPc = "serving"
    /\ drainSet = {}
    /\ NoChunkCall
    /\ NoStreamBuffer
    /\ MainServing
    /\ NoParseCall

NextAgent ==
    \/ \E s \in Senders : \E text \in AgentTexts :
          HandleMessage(s.channel, s.channel_uid, text)
    \/ \E m \in 1..MaxMsgs : LockAcquired(m)
    \/ \E m \in 1..MaxMsgs : RunCommand(m)
    \/ \E m \in 1..MaxMsgs : ChatBegin(m)
    \/ \E m \in 1..MaxMsgs : \E frag \in Fragments : StreamNext(m, frag)
    \/ \E m \in 1..MaxMsgs : StreamEnd(m)
    \/ \E m \in 1..MaxMsgs : StreamRaise(m)
    \/ \E m \in 1..MaxMsgs : TypingExit(m)
    \/ \E m \in 1..MaxMsgs : Flush(m)
    \/ \E m \in 1..MaxMsgs : FlushReturn(m)

SpecAgent == InitAgent /\ [][NextAgent]_vars

(***************************************************************************)
(* Claims about the agent request of a chat turn (checked under SpecAgent).*)
(***************************************************************************)
\* the system prompt a conversation is to run with: its own, or the default
\* when it has none
EffectivePrompt(conv) ==
    IF conv.system_prompt = None THEN DefaultSystemPrompt ELSE conv.system_prompt

\* C31: when a chat turn requests the agent stream, the request carries the
\* thread_id, the model and the system prompt (the conversation's own when
\* set, else the default) of the user's active conversation as the store
\* holds it at that moment; so a model or system prompt stored by an earlier
\* /model or /system is what the next turn runs with.
C31_AgentRequest ==
    [][ \A m \in Handlers :
          handler[m].pc = "chat" /\ handler'[m].pc = "stream"
            => LET conv == get_active_conversation(conversations', handler[m].user.id)
               IN handler'[m].request =
                      [thread_id |-> conv.thread_id, model |-> conv.model,
                       system_prompt |-> EffectivePrompt(conv)] ]_vars

\* a turn requested the stream for a kept conversation, with that
\* conversation's thread_id and model
C31_Witness ==
    \E m \in Handlers :
        /\ handler[m].pc \in {"stream", "await_typing", "flushing", "done"}
        /\ handler[m].conv \in UNION KeptConversations
        /\ handler[m].request.thread_id = handler[m].conv.thread_id
        /\ handler[m].request.model = ModelX

(***************************************************************************)
(* Claims about the content of the chunks (checked under SpecChunk).       *)
(***************************************************************************)
\* C35: for a non-empty text, no chunk chunk_markdown returns is the empty
\* string, and every chunk holds at least one line of the text besides the
\* fence lines the loop injected.
C35_NoContentlessChunk ==
    (chunkPc = "returned" /\ chunk_text # <<>>) =>
        \A i \in 1..Len(chunks) :
            /\ chunks[i].text # <<>>
            /\ chunks[i].lines # <<>>

\* a chunk between a re-opening and a closing fence holds a single line of
\* the text
C35_Witness ==
    /\ chunkPc = "returned"
    /\ \E i \in 1..Len(chunks) :
          /\ chunks[i].reopened
          /\ chunks[i].closed
          /\ Len(chunks[i].lines) = 1

(***************************************************************************)
(* Claims about deliveries to a Telegram chat (checked under SpecDelivery).*)
(***************************************************************************)
\* every chunk of a chunked text, sent in order by one method of the adapter
AllSends(by, cs) == [i \in 1..Len(cs) |-> Call(by, "send_message", cs[i])]

\* C32: whatever the platform rejected, a finalized non-empty buffer was
\* delivered in full - by the one in-place edit, or by a send of every chunk
\* of the final text in chunk order (after the delete of the partial
\* message) - and a send_text reply had every one of its chunks sent in
\* order.
C32_BestEffort ==
    /\ (bufPc = "finalized" /\ _buffer # <<>>) =>
          \/ FinalizeCalls = <<Call("finalize", "edit_text", _buffer)>>
          \/ SelectSeq(FinalizeCalls, LAMBDA c : c.method = "send_message")
                = AllSends("finalize", FinalChunks(_buffer))
    /\ SendTextCalls # <<>> =>
          \E t \in ReplyTexts : SendTextCalls = AllSends("send_text", SendTextChunks[t])

\* the platform rejected the first chunk of a send_text reply and the second
\* chunk was sent after it; before that, a partial render had been rejected
\* and finalize ran all the same
C32_Witness ==
    /\ bufPc = "finalized"
    /\ \E i \in 1..Len(bot) : bot[i].by = "_do_edit" /\ bot_result[i] = "rejected"
    /\ \E i \in 1..Len(bot) - 1 :
          /\ bot[i].by = "send_text" /\ bot_result[i] = "rejected"
          /\ bot[i + 1].by = "send_text"

\* what the chat shows of the turn's response: the messages of the buffer's
\* own calls
Rendering == SelectSeq(chat, LAMBDA msg : msg.by # "send_text")

\* the platform rejected none of the buffer's requests
NoRejection ==
    \A i \in 1..Len(bot) : bot[i].by # "send_text" => bot_result[i] # "rejected"

\* the final text as one message that began as the partial message
EditedInPlace(t) == <<[by |-> "_do_edit", text |-> t]>>

\* the final text as chunk messages sent by finalize
SentAsChunks(t) ==
    [i \in 1..Len(FinalChunks(t)) |-> [by |-> "finalize", text |-> FinalChunks(t)[i]]]

\* C34: when finalize has run on a non-empty buffer and the platform
\* rejected none of the buffer's requests, the chat shows the response once:
\* as the partial message edited to the final text, or as the final chunk
\* messages alone; and the first send_token after a flush starts a buffer
\* that holds only that token and has no message.
C34_SingleRendering ==
    [][ /\ (bufPc' = "finalized" /\ _buffer' # <<>> /\ NoRejection')
            => Rendering' \in {EditedInPlace(_buffer'), SentAsChunks(_buffer')}
        /\ (bufPc = "finalized" /\ bufPc' = "open")
            => /\ _buffer' \in Tokens
               /\ _message' = None
               /\ _last_edit_len' = 0
               /\ Rendering' = <<>> ]_vars

\* a second turn's buffer was finalized after its partial message had been
\* edited in place, finalize having cancelled an edit that was in flight
C34_Witness ==
    /\ bufPc = "finalized"
    /\ added = 3
    /\ \E t1, t2 \in Tokens : _buffer = t1 \o t2
    /\ NoRejection
    /\ Rendering = EditedInPlace(_buffer)
    /\ \E i \in 1..Len(bot) : bot[i].method = "edit_text" /\ bot_result[i] = "cancelled"

(***************************************************************************)
(* Claims about handlers after the drain (checked under SpecShutdown).     *)
(***************************************************************************)
\* wait_for_active_tasks has returned
AfterDrain == mainPc \in {"drained", "closing", "stopped"}

\* C33: once wait_for_active_tasks has returned, no handler is inside a
\* per-user section, whether it was there during the drain or enters
\* afterwards from the queue of its user's lock.
C33_NoProcessingAfterDrain ==
    AfterDrain => \A m \in Handlers : ~InSection(m)

\* a message that passed the shutdown check and queued for its user's lock
\* before the drain is at the start of its chat turn while the pools are
\* being closed
C33_Witness ==
    /\ mainPc \in {"closing", "stopped"}
    /\ pools # <<>>
    /\ \E m \in Handlers :
          /\ handler[m].pc = "chat"
          /\ ~handler[m].gate
          /\ m \notin drainSet

(***************************************************************************)
(* Claims about the fragments of a chat turn (checked under Spec).         *)
(***************************************************************************)
\* the text of the text-typed blocks of a list of blocks, in order
RECURSIVE TextTyped(_)
TextTyped(blocks) ==
    IF blocks = <<>> THEN <<>>
    ELSE (IF Head(blocks).type = "text" THEN Head(blocks).text ELSE <<>>)
         \o TextTyped(Tail(blocks))

\* what of a fragment is to reach send_token: nothing for a sub-agent or
\* tool-call fragment; otherwise its text, or the text of its text-typed
\* blocks, when that is not empty
Visible(frag) ==
    LET t == IF frag.content.kind = "list" THEN TextTyped(frag.content.blocks)
             ELSE frag.content.str
    IN IF frag.namespace = <<>> /\ ~frag.tool_call_chunks /\ t # <<>> THEN <<t>> ELSE <<>>

\* C30: the tokens handed to send_token change only when the agent yields a
\* fragment, and then by what is visible of that fragment being appended
\* after the tokens sent before.
C30_FragmentFilter ==
    [][ \A m \in Handlers :
          /\ handler'[m].tokens # handler[m].tokens
                => handler'[m].nfrag = handler[m].nfrag + 1
          /\ handler'[m].nfrag = handler[m].nfrag + 1
                => \E frag \in Fragments :
                      handler'[m].tokens = handler[m].tokens \o Visible(frag) ]_vars

\* a fragment made of blocks was forwarded
C30_Witness ==
    \E m \in Handlers :
        /\ handler[m].nfrag = 1
        /\ handler[m].tokens = <<<<"d", "e">>>>

====
